---------------------------- MODULE Spec2Model ----------------------------
(***************************************************************************)
(* Verification model of the Baton SQL extension's validation engine:      *)
(* the SQL normalizer, the string helpers, the validation dispatcher with  *)
(* its result cache, and the two hosts that position and publish the       *)
(* diagnostics (the language server and the in-process extension).         *)
(*                                                                         *)
(* A JavaScript string is a sequence of one-character strings.  An         *)
(* optional field (`lineNumber?: number`) is <<>> when undefined and <<n>>  *)
(* when it holds n.                                                        *)
(***************************************************************************)
EXTENDS Integers, Sequences, FiniteSets, TLC

VARIABLES
    norm,             \* the normalizer under test: input and its successive images
    ruleRun,          \* one rule under test: what it is given and what it returns
    validationCache,  \* sqlValidator.ts: Map<cacheKey, ValidationResult[]>
    astMemo,          \* what the external parser answered for each text it was given
    cacheOrigin,      \* history: the (sql, originalQuery) each cache entry was computed from
    ruleMode,         \* how each rule of allValidationRules behaves in this run
    lastCall,         \* what the last validateSql call took and returned
    host,             \* which host validates documents: extension.ts or server.ts
    fileDigests,      \* the host's Map<uri, digest of the text last validated>
    published,        \* the diagnostics the host last published for each uri
    lastPass,         \* history: what the last validation pass of a document did
    editor,           \* the documents the editor holds, open or closed, by uri
    timeout,          \* debounce: the armed timer and the document it was armed with
    awaiting,         \* history: uris edited and not passed to validation since
    diagnosticFixes,  \* codeActionProvider.ts: Map<key, TextEdit> of the server
    lastClear,        \* history: the store before and after the last clearDiagnosticFixes
    symbols           \* SymbolIndex.symbols of the server: Map<name, SymbolInfo[]>

normVars == <<norm>>
coreVars == <<validationCache, cacheOrigin, astMemo, ruleMode, lastCall>>
editVars == <<editor, timeout, awaiting>>
storeVars == <<diagnosticFixes, lastClear, symbols>>
docVars == <<host, fileDigests, published, lastPass, editor, timeout, awaiting, storeVars>>
vars == <<norm, ruleRun, validationCache, cacheOrigin, astMemo, ruleMode, lastCall,
          host, fileDigests, published, lastPass, editor, timeout, awaiting,
          diagnosticFixes, lastClear, symbols>>

(***************************************************************************)
(* Bounds of the model.                                                    *)
(***************************************************************************)
MaxNormLen == 7   \* longest string given to the normalizer on its own
MaxCached == 1    \* entries the validation cache holds at once

(***************************************************************************)
(* Characters and strings.                                                 *)
(***************************************************************************)
None == <<>>
Some(n) == <<n>>

\* Op(v), with v worked out once before Op uses it.
Once(Op(_), v) == CHOOSE r \in {Op(x) : x \in {v}} : TRUE

\* The printable ASCII characters in code order, from code 32 (space) to 126;
\* the double quote, the backslash and the backtick are spelled out.
Printable ==
    <<" ","!","DQUOTE","#","$","%","&","'","(",")","*","+",",","-",".","/",
      "0","1","2","3","4","5","6","7","8","9",":",";","<","=",">","?","@",
      "A","B","C","D","E","F","G","H","I","J","K","L","M","N","O","P","Q",
      "R","S","T","U","V","W","X","Y","Z","[","BACKSLASH","]","^","_","BACKTICK",
      "a","b","c","d","e","f","g","h","i","j","k","l","m","n","o","p","q",
      "r","s","t","u","v","w","x","y","z","{","|","}","~">>

PrintableIndexOf ==
    [c \in {Printable[i] : i \in 1..Len(Printable)} |->
        CHOOSE i \in 1..Len(Printable) : Printable[i] = c]
PrintableIndex(c) == PrintableIndexOf[c]
CharsCoded(codes) == {Printable[code - 31] : code \in codes}
UpperChars == CharsCoded(65..90)
LowerChars == CharsCoded(97..122)
DigitChars == CharsCoded(48..57)
WordChars == UpperChars \cup LowerChars \cup DigitChars \cup {"_"}
LowerTable == [c \in UpperChars |-> Printable[PrintableIndexOf[c] + 32]]

\* String.prototype.charCodeAt for one character.
CharCode(c) ==
    IF c = "\n" THEN 10
    ELSE IF c = "\t" THEN 9
    ELSE 31 + PrintableIndex(c)

IsUpper(c) == c \in UpperChars
IsLowerLetter(c) == c \in LowerChars
IsDigit(c) == c \in DigitChars
IsSpace(c) == c \in {" ", "\n", "\t"}                 \* regex \s on this alphabet
IsWordChar(c) == c \in WordChars                     \* regex \w

LowerChar(c) == IF IsUpper(c) THEN LowerTable[c] ELSE c

\* String.prototype.toLowerCase
LowerOf(s) == [i \in 1..Len(s) |-> LowerChar(s[i])]
ToLowerCase(s) == Once(LowerOf, s)

\* String.prototype.toUpperCase
UpperTable == [c \in LowerChars |-> Printable[PrintableIndexOf[c] - 32]]
UpperChar(c) == IF IsLowerLetter(c) THEN UpperTable[c] ELSE c
UpperOf(s) == [i \in 1..Len(s) |-> UpperChar(s[i])]
ToUpperCase(s) == Once(UpperOf, s)

\* text.split(/\s+/)[0]: the characters before the first white space.
RECURSIVE FirstWordFrom(_, _)
FirstWordFrom(s, i) ==
    IF i > Len(s) \/ IsSpace(s[i]) THEN SubSeq(s, 1, i - 1) ELSE FirstWordFrom(s, i + 1)
FirstWord(s) == FirstWordFrom(s, 1)

\* s.substring(i - 1): the suffix that starts at the one-based index i.
SuffixFrom(s, i) == SubSeq(s, i, Len(s))

\* Whether p occurs in s starting at the one-based index i.
MatchesAt(s, p, i) ==
    /\ i >= 1
    /\ i + Len(p) - 1 <= Len(s)
    /\ \A k \in 1..Len(p) : s[i + k - 1] = p[k]

\* String.prototype.startsWith / includes / indexOf (indexOf is zero-based, -1 when absent).
StartsWith(s, p) == MatchesAt(s, p, 1)
Includes(s, p) == \E i \in 1..(Len(s) + 1) : MatchesAt(s, p, i)
IndexOf(s, p) ==
    IF Includes(s, p)
    THEN (CHOOSE i \in 1..(Len(s) + 1) :
              /\ MatchesAt(s, p, i)
              /\ \A j \in 1..(i - 1) : ~MatchesAt(s, p, j)) - 1
    ELSE -1

\* String.prototype.endsWith
EndsWithText(s, p) == Len(p) <= Len(s) /\ MatchesAt(s, p, Len(s) - Len(p) + 1)

\* String.prototype.trim
FirstInk(s) == {i \in 1..Len(s) : ~IsSpace(s[i])}
TrimStartOf(s) ==
    IF FirstInk(s) = {} THEN <<>>
    ELSE SuffixFrom(s, CHOOSE i \in FirstInk(s) : \A j \in FirstInk(s) : i <= j)
TrimEndOf(s) ==
    IF FirstInk(s) = {} THEN <<>>
    ELSE SubSeq(s, 1, CHOOSE i \in FirstInk(s) : \A j \in FirstInk(s) : i >= j)
TrimStart(s) == Once(TrimStartOf, s)
TrimEnd(s) == Once(TrimEndOf, s)
Trim(s) == TrimEnd(TrimStart(s))

\* s.split('\n'): the lines of s, at least one.
LineBreaks(s) == {i \in 1..Len(s) : s[i] = "\n"}
\* The k-th line: from after the (k-1)-th break to before the k-th.
LineOf(s, k) ==
    LET before == {b \in LineBreaks(s) : Cardinality({c \in LineBreaks(s) : c <= b}) = k - 1}
        after == {b \in LineBreaks(s) : Cardinality({c \in LineBreaks(s) : c <= b}) = k}
        first == IF before = {} THEN 1 ELSE (CHOOSE b \in before : TRUE) + 1
        last == IF after = {} THEN Len(s) ELSE (CHOOSE b \in after : TRUE) - 1
    IN  SubSeq(s, first, last)
LinesOf(s) == [k \in 1..(Cardinality(LineBreaks(s)) + 1) |-> Once(LAMBDA n : LineOf(s, n), k)]
SplitLines(s) == Once(LinesOf, s)

(***************************************************************************)
(* stringUtils.ts: hashString.  The running value is a 32-bit integer,     *)
(* kept as its two unsigned 16-bit halves <<hi, lo>>.                      *)
(***************************************************************************)
Half == 65536

\* hash = ((hash << 5) - hash) + char; hash = hash & hash
HashStep(h, c) ==
    LET lo == 31 * h[2] + CharCode(c)
        hi == 31 * h[1] + (lo \div Half)
    IN  <<hi % Half, lo % Half>>

\* The loop over the characters first..last, entered with hash h: the first
\* half of the turns, then the rest from the value they leave.
RECURSIVE HashFrom(_, _, _, _)
HashFrom(str, first, last, h) ==
    IF first > last THEN h
    ELSE IF first = last THEN HashStep(h, str[first])
    ELSE CHOOSE r \in {HashFrom(str, (first + last) \div 2 + 1, last, half) :
                          half \in {HashFrom(str, first, (first + last) \div 2, h)}} : TRUE

\* The signed 32-bit value of the halves.
ToInt32(h) == IF h[1] >= Half \div 2 THEN (h[1] - Half) * Half + h[2] ELSE h[1] * Half + h[2]

\* hashString(str) is hash.toString(): the decimal rendering of a 32-bit
\* integer names that integer and no other, so the string is kept as <<integer>>.
HashOf(str) == <<ToInt32(HashFrom(str, 1, Len(str), <<0, 0>>))>>
hashString(str) == Once(HashOf, str)

(***************************************************************************)
(* sqlUtils.ts: normalizeSQL, sql.replace(/\?\<[^>]+\>/g, '?').            *)
(***************************************************************************)
\* The regular expression \?\<[^>]+\> tried at index i: the index of the
\* closing '>' of the match, 0 when it does not match there.
ParamTokenEnd(s, i) ==
    IF /\ i + 2 <= Len(s)
       /\ s[i] = "?"
       /\ s[i + 1] = "<"
       /\ s[i + 2] # ">"
    THEN LET closes == {j \in (i + 3)..Len(s) : s[j] = ">"}
         IN  IF closes = {} THEN 0
             ELSE CHOOSE j \in closes : \A k \in closes : j <= k
    ELSE 0

\* The global replace: left to right, resuming after each match.
RECURSIVE ReplaceParamsFrom(_, _)
ReplaceParamsFrom(s, i) ==
    IF i > Len(s) THEN <<>>
    ELSE Once(LAMBDA e : IF e > 0
                         THEN <<"?">> \o ReplaceParamsFrom(s, e + 1)
                         ELSE <<s[i]>> \o ReplaceParamsFrom(s, i + 1),
              ParamTokenEnd(s, i))

normalizeSQL(sql) == Once(LAMBDA s : ReplaceParamsFrom(s, 1), sql)

\* Whether s still holds a named-parameter token ?<name>.
HasParamToken(s) == \E i \in 1..Len(s) : ParamTokenEnd(s, i) > 0

(***************************************************************************)
(* The normalizer on its own: every string over a small alphabet is        *)
(* normalized once and then once more.                                     *)
(***************************************************************************)
NormAlphabet == {"?", "<", ">", "a"}
NormInputs == UNION {[1..n -> NormAlphabet] : n \in 0..MaxNormLen}

NormIdle == [stage |-> "idle", input |-> <<>>, once |-> <<>>, twice |-> <<>>]
CoreIdle ==
    /\ ruleRun = [stage |-> "idle"]
    /\ validationCache = <<>>
    /\ cacheOrigin = <<>>
    /\ astMemo = <<>>
    /\ ruleMode = <<>>
    /\ lastCall = [called |-> FALSE]

\* No document host is running.
DocIdle ==
    /\ host = "none"
    /\ fileDigests = <<>>
    /\ published = <<>>
    /\ lastPass = [ran |-> FALSE]
    /\ editor = <<>>
    /\ timeout = <<>>
    /\ awaiting = {}
    /\ diagnosticFixes = <<>>
    /\ lastClear = [called |-> FALSE]
    /\ symbols = <<>>

NormInit ==
    /\ \E s \in NormInputs :
           norm = [stage |-> "input", input |-> s, once |-> <<>>, twice |-> <<>>]
    /\ CoreIdle
    /\ DocIdle

NormalizeOnce ==
    /\ norm.stage = "input"
    /\ norm' = [norm EXCEPT !.stage = "once", !.once = normalizeSQL(norm.input)]
    /\ UNCHANGED <<ruleRun, coreVars, docVars>>

NormalizeTwice ==
    /\ norm.stage = "once"
    /\ norm' = [norm EXCEPT !.stage = "twice", !.twice = normalizeSQL(norm.once)]
    /\ UNCHANGED <<ruleRun, coreVars, docVars>>

NormNext == NormalizeOnce \/ NormalizeTwice

SpecNorm == NormInit /\ [][NormNext]_vars

\* C6: normalizeSQL is idempotent: its output holds no named-parameter token
\* any more, so normalizing the output again changes nothing.
C6_NormalizeIdempotent ==
    /\ norm.stage \in {"once", "twice"} => ~HasParamToken(norm.once)
    /\ norm.stage = "twice" => norm.twice = norm.once


(***************************************************************************)
(* stringUtils.ts: findLineWithPattern, levenshteinDistance and            *)
(* areWordsSimilar.                                                        *)
(***************************************************************************)
\* str.replace(/\s+/g, ' '): every run of white space becomes one space.
RECURSIVE CollapseFrom(_, _)
CollapseFrom(s, i) ==
    IF i > Len(s) THEN <<>>
    ELSE IF IsSpace(s[i])
         THEN IF i > 1 /\ IsSpace(s[i - 1]) THEN CollapseFrom(s, i + 1)
              ELSE <<" ">> \o CollapseFrom(s, i + 1)
         ELSE <<s[i]>> \o CollapseFrom(s, i + 1)
CollapseWhitespace(s) == Once(LAMBDA x : CollapseFrom(x, 1), s)

NoOptions == [fuzzy |-> FALSE, ignoreCase |-> FALSE, ignoreWhitespace |-> FALSE]
IgnoreCase == [fuzzy |-> FALSE, ignoreCase |-> TRUE, ignoreWhitespace |-> FALSE]

\* The line as the loop body compares it.
PreparedLine(line, options) ==
    LET cased == IF options.ignoreCase THEN ToLowerCase(line) ELSE line
    IN  IF options.ignoreWhitespace THEN Trim(CollapseWhitespace(cased)) ELSE cased

LineMatchesPattern(line, normalizedPattern, options) ==
    LET prepared == PreparedLine(line, options)
    IN  IF options.fuzzy
        THEN Includes(prepared, normalizedPattern) \/ Includes(normalizedPattern, Trim(prepared))
        ELSE Includes(prepared, normalizedPattern)

\* What the helper reports for the line at the zero-based loop index i.
ReportedLineNumber(i) == i + 1

\* findLineWithPattern(text, pattern, options): None, or Some of the first
\* matching line with the number the helper gives it.
findLineWithPattern(text, pattern, options) ==
    LET lines == SplitLines(text)
        normalizedPattern ==
            IF options.ignoreWhitespace THEN Trim(CollapseWhitespace(pattern)) ELSE pattern
        hits == {k \in 1..Len(lines) : LineMatchesPattern(lines[k], normalizedPattern, options)}
    IN  IF hits = {} THEN None
        ELSE LET k == CHOOSE x \in hits : \A y \in hits : x <= y
             IN  Some([lineNumber |-> ReportedLineNumber(k - 1), line |-> lines[k]])

\* lineResult ? lineResult.lineNumber : undefined
LineNumberOf(lineResult) == IF lineResult = None THEN None ELSE Some(lineResult[1].lineNumber)

Min2(x, y) == IF x <= y THEN x ELSE y
Max2(x, y) == IF x >= y THEN x ELSE y

\* The cell without the deletion term.
LevCellWithoutDeletion(a, b, j, prev, row) ==
    Min2(prev[Len(row) + 1] + 1,
         prev[Len(row)] + (IF a[Len(row)] = b[j] THEN 0 ELSE 1))

\* matrix[j][i], from the cells to its left (row holds matrix[j][0 .. i - 1])
\* and above it (prev is row j - 1).
LevCell(a, b, j, prev, row) ==
    Min2(Min2(row[Len(row)] + 1, prev[Len(row) + 1] + 1),
         prev[Len(row)] + (IF a[Len(row)] = b[j] THEN 0 ELSE 1))

\* One row of the matrix: row j from row j - 1, filled left to right.
RECURSIVE LevRow(_, _, _, _, _)
LevRow(a, b, j, prev, row) ==
    IF Len(row) > Len(a) THEN row
    ELSE Once(LAMBDA longer : LevRow(a, b, j, prev, longer),
              Append(row, LevCell(a, b, j, prev, row)))

RECURSIVE LevRows(_, _, _, _)
LevRows(a, b, j, prev) ==
    IF j > Len(b) THEN prev
    ELSE Once(LAMBDA row : LevRows(a, b, j + 1, row), LevRow(a, b, j, prev, <<j>>))

levenshteinDistance(a, b) ==
    IF Len(a) = 0 THEN Len(b)
    ELSE IF Len(b) = 0 THEN Len(a)
    ELSE LevRows(a, b, 1, [i \in 1..(Len(a) + 1) |-> i - 1])[Len(a) + 1]

areWordsSimilar(word1, word2, threshold) ==
    levenshteinDistance(ToLowerCase(word1), ToLowerCase(word2)) <= threshold

(***************************************************************************)
(* The external SQL parser (node-sql-parser), seen as the rules see it:    *)
(* astify(text) either returns a tree or throws.  What it answers for a    *)
(* text is not decided by this repository; it answers the same text the    *)
(* same way every time.                                                    *)
(***************************************************************************)
AstSelectWithoutFrom == [kind |-> "ast", select |-> TRUE, from |-> FALSE]
AstOther == [kind |-> "ast", select |-> FALSE, from |-> TRUE]
ParseErrorOther == [kind |-> "error", parenthesis |-> FALSE, line |-> None]
ParseErrorParenthesis(line) == [kind |-> "error", parenthesis |-> TRUE, line |-> line]

AstOutcomes ==
    {AstSelectWithoutFrom, AstOther, ParseErrorOther,
     ParseErrorParenthesis(None), ParseErrorParenthesis(Some(1))}

(***************************************************************************)
(* validation/types.ts: ValidationResult, as a rule returns it.            *)
(***************************************************************************)
Valid == [isValid |-> TRUE]
Invalid(message, lineNumber, position) ==
    [isValid |-> FALSE, errorMessage |-> message, lineNumber |-> lineNumber,
     position |-> position]
Thrown == [thrown |-> TRUE]

IsThrown(outcome) == "thrown" \in DOMAIN outcome

\* A message is its fixed text and the value spliced into it.
Message(text, arg) == Some([text |-> text, arg |-> arg])

(***************************************************************************)
(* rules/missingFromRule.ts                                                *)
(***************************************************************************)
systemFunctions ==
    << <<"c","u","r","r","e","n","t","_","d","a","t","e">>,
       <<"c","u","r","r","e","n","t","_","t","i","m","e">>,
       <<"c","u","r","r","e","n","t","_","t","i","m","e","s","t","a","m","p">>,
       <<"n","o","w","(",")">>, <<"g","e","t","d","a","t","e","(",")">>,
       <<"s","y","s","d","a","t","e">>, <<"u","s","e","r">>,
       <<"s","e","s","s","i","o","n","_","u","s","e","r">>,
       <<"c","u","r","r","e","n","t","_","u","s","e","r">>,
       <<"d","a","t","a","b","a","s","e","(",")">>, <<"v","e","r","s","i","o","n","(",")">>,
       <<"c","o","n","n","e","c","t","i","o","n","_","i","d","(",")">>,
       <<"l","a","s","t","_","i","n","s","e","r","t","_","i","d","(",")">>,
       <<"r","o","w","_","c","o","u","n","t","(",")">>,
       <<"f","o","u","n","d","_","r","o","w","s","(",")">>, <<"u","u","i","d","(",")">>,
       <<"r","a","n","d","(",")">>, <<"p","i","(",")">>, <<"a","b","s","(">>,
       <<"c","e","i","l","(">>, <<"f","l","o","o","r","(">>, <<"r","o","u","n","d","(">>,
       <<"s","q","r","t","(">>, <<"p","o","w","e","r","(">>, <<"m","o","d","(">>,
       <<"l","e","n","g","t","h","(">>, <<"u","p","p","e","r","(">>, <<"l","o","w","e","r","(">>,
       <<"t","r","i","m","(">>, <<"l","t","r","i","m","(">>, <<"r","t","r","i","m","(">>,
       <<"s","u","b","s","t","r","i","n","g","(">>, <<"c","o","n","c","a","t","(">>,
       <<"c","o","a","l","e","s","c","e","(">>, <<"n","u","l","l","i","f","(">>,
       <<"g","r","e","a","t","e","s","t","(">>, <<"l","e","a","s","t","(">>,
       <<"c","a","s","e","BACKSLASH","s","+","w","h","e","n">> >>


S_select == <<"s","e","l","e","c","t">>
S_from_spaced == <<" ","f","r","o","m"," ">>

\* The index of the first character at or after i that is not white space.
RECURSIVE SkipSpaces(_, _)
SkipSpaces(s, i) == IF i <= Len(s) /\ IsSpace(s[i]) THEN SkipSpaces(s, i + 1) ELSE i

\* "select" at index i, then \s+ : the index after the white space, 0 if no match.
AfterSelectAt(s, i) ==
    IF MatchesAt(s, S_select, i) /\ i + 6 <= Len(s) /\ IsSpace(s[i + 6])
    THEN SkipSpaces(s, i + 6)
    ELSE 0

\* /^select\s+[\d'"]/
StartsWithLiteral(s) ==
    LET k == AfterSelectAt(s, 1)
    IN  k > 0 /\ k <= Len(s) /\ (IsDigit(s[k]) \/ s[k] \in {"'", "DQUOTE"})

ArithmeticChar(c) == IsDigit(c) \/ IsSpace(c) \/ c \in {"+", "-", "*", "/", "(", ")"}

\* /select\s+[\d\s\+\-\*\/\(\)]+$/
IsArithmeticSelect(s) ==
    \E i \in 1..Len(s) :
        /\ AfterSelectAt(s, i) > 0
        /\ i + 7 <= Len(s)
        /\ \A k \in (i + 6)..Len(s) : ArithmeticChar(s[k])

\* /select\s+@\w+/ and /select\s+\$\w+/
IsVariableSelect(s) ==
    \E i \in 1..Len(s) :
        LET k == AfterSelectAt(s, i)
        IN  /\ k > 0
            /\ k + 1 <= Len(s)
            /\ s[k] \in {"@", "$"}
            /\ IsWordChar(s[k + 1])

isValidSelectWithoutFrom(selectContent) ==
    LET lowerContent == Trim(ToLowerCase(selectContent))
    IN  \/ StartsWithLiteral(lowerContent)
        \/ \E f \in 1..Len(systemFunctions) : Includes(lowerContent, systemFunctions[f])
        \/ IsArithmeticSelect(lowerContent)
        \/ IsVariableSelect(lowerContent)

MissingFromMessage ==
    Message("Missing FROM clause in SELECT statement. Add FROM clause or use system functions/literals if querying constants.", <<>>)

\* Both branches end the same way once they have decided the SELECT lacks a FROM.
MissingFromVerdict(sql, originalQuery) ==
    IF isValidSelectWithoutFrom(sql) THEN Valid
    ELSE Invalid(MissingFromMessage,
                 LineNumberOf(findLineWithPattern(originalQuery, S_select, IgnoreCase)),
                 None)

missingFromRule(sql, originalQuery, ast) ==
    IF ast.kind = "ast"
    THEN IF ast.select /\ ~ast.from THEN MissingFromVerdict(sql, originalQuery) ELSE Valid
    ELSE IF /\ StartsWith(ToLowerCase(sql), S_select)
            /\ ~Includes(ToLowerCase(sql), S_from_spaced)
         THEN MissingFromVerdict(sql, originalQuery)
         ELSE Valid

(***************************************************************************)
(* rules/unclosedParenthesesRule.ts                                        *)
(***************************************************************************)
unclosedParenthesesRule(sql, originalQuery, ast) ==
    IF ast.kind = "ast" THEN Valid
    ELSE IF ast.parenthesis
         THEN Invalid(Message("<parser message>. Check that all opening parentheses '(' have matching closing parentheses ')'.", <<>>),
                      ast.line, None)
         ELSE Valid

(***************************************************************************)
(* rules/propertyNameTyposRule.ts                                          *)
(***************************************************************************)
propertyTypos ==
    << <<"s","t","a","t","i","c","_","e","n","t","i","t","l","e","m","e","n","t">>,
       <<"s","t","a","t","i","c","e","n","t","i","t","l","e","m","e","n","t","s">>,
       <<"s","t","a","t","i","c","_","e","n","t","i","t","l","e","m","e","n","t","z">>,
       <<"s","t","a","t","i","c","_","e","n","t","i","t","l","e","m","e","n","t","s","s">>,
       <<"s","t","a","t","i","c","e","n","t","i","t","l","e","m","e","n","t">>,
       <<"s","t","a","t","i","c","_","e","n","t","i","t","l","e","m","e","n","t","_">>,
       <<"_","s","t","a","t","i","c","_","e","n","t","i","t","l","e","m","e","n","t","s">> >>

\* The first typo, in table order, that the trimmed line holds followed by ':'; 0 if none.
TypoInLine(line) ==
    LET trimmed == Trim(line)
        found == {t \in 1..Len(propertyTypos) : Includes(trimmed, Append(propertyTypos[t], ":"))}
    IN  IF trimmed = <<>> \/ found = {} THEN 0
        ELSE CHOOSE t \in found : \A u \in found : t <= u

propertyNameTyposRule(sql, originalQuery) ==
    LET lines == SplitLines(originalQuery)
        hits == {k \in 1..Len(lines) : TypoInLine(lines[k]) > 0}
    IN  IF hits = {} THEN Valid
        ELSE LET k == CHOOSE x \in hits : \A y \in hits : x <= y
             IN  Invalid(Message("Did you mean 'static_entitlements' instead of '<typo>'?",
                                 propertyTypos[TypoInLine(lines[k])]),
                         Some(k - 1), None)

(***************************************************************************)
(* rules/batonParameterValidationRule.ts                                   *)
(***************************************************************************)
sqlKeywords ==
    { <<"s","e","l","e","c","t">>, <<"f","r","o","m">>, <<"w","h","e","r","e">>, <<"a","n","d">>,
       <<"o","r">>, <<"o","r","d","e","r">>, <<"b","y">>, <<"g","r","o","u","p">>,
       <<"h","a","v","i","n","g">>, <<"j","o","i","n">>, <<"i","n","n","e","r">>,
       <<"l","e","f","t">>, <<"r","i","g","h","t">>, <<"o","u","t","e","r">>, <<"o","n">>,
       <<"a","s">>, <<"i","n">>, <<"e","x","i","s","t","s">>, <<"n","o","t">>,
       <<"b","e","t","w","e","e","n">>, <<"l","i","k","e">>, <<"n","u","l","l">>, <<"i","s">>,
       <<"l","i","m","i","t">>, <<"o","f","f","s","e","t">>, <<"i","n","s","e","r","t">>,
       <<"i","n","t","o">>, <<"v","a","l","u","e","s">>, <<"u","p","d","a","t","e">>,
       <<"s","e","t">>, <<"d","e","l","e","t","e">>, <<"c","r","e","a","t","e">>,
       <<"t","a","b","l","e">>, <<"a","l","t","e","r">>, <<"d","r","o","p">>,
       <<"i","n","d","e","x">>, <<"u","n","i","o","n">>, <<"a","l","l">>,
       <<"d","i","s","t","i","n","c","t">>, <<"c","a","s","e">>, <<"w","h","e","n">>,
       <<"t","h","e","n">>, <<"e","l","s","e">>, <<"e","n","d">>, <<"w","i","t","h">> }

commonParams ==
    << <<"u","s","e","r","_","i","d">>, <<"r","e","s","o","u","r","c","e","_","i","d">>,
       <<"r","o","l","e","_","i","d">>, <<"p","e","r","m","i","s","s","i","o","n","_","i","d">>,
       <<"g","r","o","u","p","_","i","d">> >>


\* [...sql.matchAll(/\?\<([^>]+)\>/g)]: each match with its zero-based index
\* and its captured name, in text order.
RECURSIVE ParamMatchesFrom(_, _)
ParamMatchesFrom(s, i) ==
    IF i > Len(s) THEN <<>>
    ELSE LET e == ParamTokenEnd(s, i)
         IN  IF e > 0
             THEN <<[index |-> i - 1, name |-> SubSeq(s, i + 2, e - 1)]>>
                      \o ParamMatchesFrom(s, e + 1)
             ELSE ParamMatchesFrom(s, i + 1)

\* /^[a-zA-Z_][a-zA-Z0-9_]*$/
IsIdentifier(name) ==
    /\ name # <<>>
    /\ IsUpper(name[1]) \/ IsLowerLetter(name[1]) \/ name[1] = "_"
    /\ \A k \in 1..Len(name) : IsWordChar(name[k])

RegExpSpecial ==
    {".", "*", "+", "?", "^", "$", "{", "}", "(", ")", "|", "[", "]", "BACKSLASH"}

\* paramName.replace(/[.*+?^${}()|[\]\\]/g, '\\$&')
RECURSIVE EscapeRegExp(_)
EscapeRegExp(s) ==
    IF s = <<>> THEN <<>>
    ELSE (IF s[1] \in RegExpSpecial THEN <<"BACKSLASH", s[1]>> ELSE <<s[1]>>)
             \o EscapeRegExp(Tail(s))

\* The line of originalQuery the rule reports for the parameter.
ParamLine(originalQuery, paramName) ==
    LineNumberOf(findLineWithPattern(originalQuery,
                                     <<"?", "<">> \o EscapeRegExp(paramName) \o <<">">>,
                                     NoOptions))

SimilarCommonParams(paramName) ==
    Once(LAMBDA lowered : SelectSeq(commonParams, LAMBDA p : areWordsSimilar(lowered, p, 1)),
         ToLowerCase(paramName))

BatonEmptyName == "Empty Baton parameter name. Use format: ?<parameter_name>"
BatonInvalidName == "Invalid Baton parameter name '<name>'. Use only letters, numbers, and underscores. Must start with letter or underscore."
BatonKeyword == "Baton parameter name '<name>' conflicts with SQL keyword."
BatonTooShort == "Baton parameter name '<name>' is too short."
BatonTypo == "Possible typo in Baton parameter '<name>'. Did you mean '<suggestion>'?"
BatonTexts == {BatonEmptyName, BatonInvalidName, BatonKeyword, BatonTooShort, BatonTypo}

\* A faulty variant of the checks, kept to tell the property below apart from
\* ones that hold of any order of the checks: the length is looked at before
\* the identifier grammar.
FirstFailedCheckLengthFirst(paramName) ==
    IF paramName = <<>> THEN BatonEmptyName
    ELSE IF Len(paramName) < 2 THEN BatonTooShort
    ELSE IF ~IsIdentifier(paramName) THEN BatonInvalidName
    ELSE IF ToLowerCase(paramName) \in sqlKeywords THEN BatonKeyword
    ELSE IF /\ SimilarCommonParams(paramName) # <<>>
            /\ \A c \in 1..Len(commonParams) : commonParams[c] # ToLowerCase(paramName)
    THEN BatonTypo
    ELSE ""

\* The checks of the loop body in the order the code makes them: the text of
\* the first one the trimmed name fails, "" when it passes them all.
FirstFailedCheck(paramName) ==
    IF paramName = <<>> THEN BatonEmptyName
    ELSE IF ~IsIdentifier(paramName) THEN BatonInvalidName
    ELSE IF ToLowerCase(paramName) \in sqlKeywords THEN BatonKeyword
    ELSE IF Len(paramName) < 2 THEN BatonTooShort
    ELSE IF /\ SimilarCommonParams(paramName) # <<>>
            /\ \A c \in 1..Len(commonParams) : commonParams[c] # ToLowerCase(paramName)
    THEN BatonTypo
    ELSE ""

\* The result returned for the failed check.
ParamFinding(failed, paramName, position, originalQuery) ==
    IF failed = "" THEN Valid
    ELSE IF failed = BatonEmptyName THEN Invalid(Message(failed, <<>>), None, position)
    ELSE Invalid(Message(failed,
                         IF failed = BatonTypo
                         THEN <<paramName, SimilarCommonParams(paramName)[1]>>
                         ELSE paramName),
                 ParamLine(originalQuery, paramName), position)

CheckName(paramName, position, originalQuery) ==
    ParamFinding(FirstFailedCheck(paramName), paramName, position, originalQuery)

\* The body of the loop over the matches, for one match.
CheckParam(match, originalQuery) ==
    CheckName(Trim(match.name), Some(match.index), originalQuery)

\* The first match, from index m on, whose check fails; 0 when none does.
RECURSIVE FirstFailing(_, _)
FirstFailing(matches, m) ==
    IF m > Len(matches) THEN 0
    ELSE IF FirstFailedCheck(Trim(matches[m].name)) # "" THEN m
    ELSE FirstFailing(matches, m + 1)

ReturnAtFirstFailing(matches, m, originalQuery) ==
    IF m = 0 THEN Valid ELSE CheckParam(matches[m], originalQuery)

MatchesChecked(matches, originalQuery) ==
    ReturnAtFirstFailing(matches, FirstFailing(matches, 1), originalQuery)

batonParameterValidationRule(sql, originalQuery) ==
    MatchesChecked(ParamMatchesFrom(sql, 1), originalQuery)

(***************************************************************************)
(* rules/missingCommaRule.ts.  The loops keep the code's zero-based line   *)
(* indices; Line0(lines, i) is lines[i].                                   *)
(***************************************************************************)
Line0(lines, i) == lines[i + 1]

\* A result that carries a suggestedFix: newText inserted at (line, character).
InvalidWithFix(message, line, character, newText) ==
    [isValid |-> FALSE, errorMessage |-> message, lineNumber |-> Some(line),
     position |-> None,
     suggestedFix |-> [range |-> [start |-> [line |-> line, character |-> character],
                                  end |-> [line |-> line, character |-> character]],
                       newText |-> newText]]

\* The finding all three loops return for the line previousLineIndex.
CommaFinding(text, lines, previousLineIndex) ==
    InvalidWithFix(Message(text, <<>>), previousLineIndex,
                   Len(TrimEnd(Line0(lines, previousLineIndex))), <<",">>)

\* findNextNonEmptyLine(lines, startIndex): None for null.
RECURSIVE findNextNonEmptyLine(_, _)
findNextNonEmptyLine(lines, startIndex) ==
    IF startIndex >= Len(lines) THEN None
    ELSE IF Trim(Line0(lines, startIndex)) # <<>> THEN Some(Trim(Line0(lines, startIndex)))
    ELSE findNextNonEmptyLine(lines, startIndex + 1)

S_FROM == <<"F","R","O","M">>
looksLikeFROM(text) ==
    \/ ToUpperCase(FirstWord(text)) = S_FROM
    \/ areWordsSimilar(ToUpperCase(FirstWord(text)), S_FROM, 2)

\* !lines[previousLineIndex].trim().endsWith(",")
LacksComma(lines, previousLineIndex) ==
    ~EndsWithText(Trim(Line0(lines, previousLineIndex)), <<",">>)

\* The loop over the characters of a line that tracks the parenthesis depth.
RECURSIVE DepthAfter(_, _, _)
DepthAfter(line, k, depth) ==
    IF k > Len(line) THEN depth
    ELSE IF line[k] = "(" THEN DepthAfter(line, k + 1, depth + 1)
    ELSE IF line[k] = ")"
         THEN IF depth - 1 = 0 THEN 0 ELSE DepthAfter(line, k + 1, depth - 1)
    ELSE DepthAfter(line, k + 1, depth)

ListStart == [depth |-> 0, previousLineNeedsComma |-> FALSE, previousLineIndex |-> -1]

ListItemIsLast(nextLine) == nextLine = None \/ Includes(nextLine[1], <<")">>)

\* checkParenthesizedList(lines, startIndex) from line i on, the loop's variables
\* in st; line is lines[i].trim() and depth the depth after its characters.
\* None for null.
RECURSIVE ListLoop(_, _, _)
ListTurn(lines, i, st, line, depth) ==
    IF depth = 0 /\ Includes(line, <<")">>) THEN None
    ELSE IF Includes(line, <<"(">>) /\ st.previousLineIndex = 0
    THEN ListLoop(lines, i + 1, [st EXCEPT !.depth = depth, !.previousLineIndex = i])
    ELSE IF Includes(line, <<":">>) /\ ~Includes(line, <<":", ":">>)
    THEN ListLoop(lines, i + 1, [st EXCEPT !.depth = depth])
    ELSE IF st.previousLineNeedsComma /\ LacksComma(lines, st.previousLineIndex)
    THEN Some(CommaFinding("Missing comma between items in list. Add a comma at the end of this line.",
                           lines, st.previousLineIndex))
    ELSE ListLoop(lines, i + 1,
                  [depth |-> depth,
                   previousLineNeedsComma |->
                       ~ListItemIsLast(findNextNonEmptyLine(lines, i + 1)) /\ Len(line) > 0,
                   previousLineIndex |-> i])

ListLoop(lines, i, st) ==
    IF i >= Len(lines) THEN None
    ELSE IF Trim(Line0(lines, i)) = <<>> THEN ListLoop(lines, i + 1, st)
    ELSE Once(LAMBDA depth : ListTurn(lines, i, st, Trim(Line0(lines, i)), depth),
              DepthAfter(Trim(Line0(lines, i)), 1, st.depth))

checkParenthesizedList(lines, startIndex) == ListLoop(lines, startIndex, ListStart)

S_insert_into == <<"i","n","s","e","r","t"," ","i","n","t","o">>
S_values == <<"v","a","l","u","e","s">>
S_update == <<"u","p","d","a","t","e">>
S_set == <<"s","e","t">>
S_where == <<"w","h","e","r","e">>
S_from == <<"f","r","o","m">>

LowerTrimmed(lines, i) == ToLowerCase(Trim(Line0(lines, i)))

\* The first index from j on whose line starts with word; Len(lines) if none.
RECURSIVE FirstLineStarting(_, _, _)
FirstLineStarting(lines, j, word) ==
    IF j >= Len(lines) \/ StartsWith(LowerTrimmed(lines, j), word) THEN j
    ELSE FirstLineStarting(lines, j + 1, word)

\* INSERT: the column list, then the list of the first VALUES line after it.
InsertChecked(lines, i, columnListError, j) ==
    IF columnListError # None THEN columnListError
    ELSE IF j >= Len(lines) THEN None
    ELSE checkParenthesizedList(lines, j)

CheckInsert(lines, i) ==
    InsertChecked(lines, i, checkParenthesizedList(lines, i),
                  FirstLineStarting(lines, i + 1, S_values))

EndsSetClause(lower) == StartsWith(lower, S_where) \/ StartsWith(lower, S_from)

SetStart == [previousLineNeedsComma |-> FALSE, previousLineIndex |-> -1]

\* UPDATE: the loop over the lines after the SET line.  None when it ends
\* without a finding.
RECURSIVE SetLoop(_, _, _)
SetLoop(lines, k, st) ==
    IF k >= Len(lines) THEN None
    ELSE IF Trim(Line0(lines, k)) = <<>> THEN SetLoop(lines, k + 1, st)
    ELSE IF EndsSetClause(LowerTrimmed(lines, k)) THEN None
    ELSE IF st.previousLineNeedsComma /\ LacksComma(lines, st.previousLineIndex)
    THEN Some(CommaFinding("Missing comma between SET assignments. Add a comma at the end of this line.",
                           lines, st.previousLineIndex))
    ELSE Once(LAMBDA next : SetLoop(lines, k + 1, next),
              [previousLineNeedsComma |->
                   /\ findNextNonEmptyLine(lines, k + 1) # None
                   /\ ~EndsSetClause(ToLowerCase(findNextNonEmptyLine(lines, k + 1)[1]))
                   /\ Includes(Trim(Line0(lines, k)), <<"=">>),
               previousLineIndex |-> k])

SetChecked(lines, j) == IF j >= Len(lines) THEN None ELSE SetLoop(lines, j + 1, SetStart)

CheckUpdate(lines, i) == SetChecked(lines, FirstLineStarting(lines, i + 1, S_set))

\* The first loop of validate: INSERT and UPDATE statements.  None when it
\* ends without returning.
RECURSIVE StatementLoop(_, _)
AfterInsert(lines, i, insertError) ==
    IF insertError # None THEN insertError
    ELSE IF StartsWith(LowerTrimmed(lines, i), S_update)
    THEN Once(LAMBDA updateError :
                  IF updateError # None THEN updateError ELSE StatementLoop(lines, i + 1),
              CheckUpdate(lines, i))
    ELSE StatementLoop(lines, i + 1)

StatementLoop(lines, i) ==
    IF i >= Len(lines) THEN None
    ELSE IF Trim(Line0(lines, i)) = <<>> THEN StatementLoop(lines, i + 1)
    ELSE IF StartsWith(LowerTrimmed(lines, i), S_insert_into)
    THEN Once(LAMBDA insertError : AfterInsert(lines, i, insertError), CheckInsert(lines, i))
    ELSE AfterInsert(lines, i, None)

\* /^(when|then|else|end|and|or|where|group|order|having|limit|offset|on)/i
ContinuationWords ==
    { <<"w","h","e","n">>, <<"t","h","e","n">>, <<"e","l","s","e">>, <<"e","n","d">>,
      <<"a","n","d">>, <<"o","r">>, S_where, <<"g","r","o","u","p">>,
      <<"o","r","d","e","r">>, <<"h","a","v","i","n","g">>, <<"l","i","m","i","t">>,
      <<"o","f","f","s","e","t">>, <<"o","n">> }
StartsContinuation(lowerLine) == \E word \in ContinuationWords : StartsWith(lowerLine, word)

\* /^(when|then|else|case)$/i
S_case == <<"c","a","s","e">>
S_end == <<"e","n","d">>
IsCaseWord(lowerLine) ==
    lowerLine \in { <<"w","h","e","n">>, <<"t","h","e","n">>, <<"e","l","s","e">>, S_case }

SelectStart ==
    [inSelectClause |-> FALSE, previousLineNeedsComma |-> FALSE, previousLineIndex |-> -1,
     caseDepth |-> 0]

\* caseDepth after the two tests of a line between SELECT and FROM.
CaseDepthAfter(lowerLine, caseDepth) ==
    IF Includes(lowerLine, S_case)
    THEN IF Includes(lowerLine, S_end) THEN caseDepth ELSE caseDepth + 1
    ELSE IF Includes(lowerLine, S_end) /\ caseDepth > 0 THEN caseDepth - 1
    ELSE caseDepth

IsLastColumn(nextNonEmptyLine) ==
    nextNonEmptyLine # None /\ looksLikeFROM(nextNonEmptyLine[1])

\* The second loop of validate: the lines between SELECT and FROM.
RECURSIVE SelectLoop(_, _, _)
ColumnTurn(lines, i, st, lowerLine, caseDepth) ==
    IF /\ st.previousLineNeedsComma
       /\ LacksComma(lines, st.previousLineIndex)
       /\ caseDepth = 0
       /\ ~StartsContinuation(lowerLine)
    THEN CommaFinding("Missing comma between column expressions. Add a comma at the end of this line to separate columns in SELECT statement.",
                      lines, st.previousLineIndex)
    ELSE Once(LAMBDA next : SelectLoop(lines, i + 1, next),
              [inSelectClause |-> TRUE,
               previousLineNeedsComma |->
                   /\ ~IsLastColumn(findNextNonEmptyLine(lines, i + 1))
                   /\ caseDepth = 0
                   /\ ~IsCaseWord(lowerLine)
                   /\ Len(lowerLine) > 0,
               previousLineIndex |-> i,
               caseDepth |-> caseDepth])

SelectTurn(lines, i, st, lowerLine) ==
    IF StartsWith(lowerLine, S_select)
    THEN SelectLoop(lines, i + 1, [st EXCEPT !.inSelectClause = TRUE])
    ELSE IF st.inSelectClause /\ StartsWith(lowerLine, S_from) THEN Valid
    ELSE IF st.inSelectClause
    THEN ColumnTurn(lines, i, st, lowerLine, CaseDepthAfter(lowerLine, st.caseDepth))
    ELSE SelectLoop(lines, i + 1, st)

SelectLoop(lines, i, st) ==
    IF i >= Len(lines) THEN Valid
    ELSE IF Trim(Line0(lines, i)) = <<>> THEN SelectLoop(lines, i + 1, st)
    ELSE Once(LAMBDA lowerLine : SelectTurn(lines, i, st, lowerLine), LowerTrimmed(lines, i))

MissingCommaChecked(lines, statementError) ==
    IF statementError # None THEN statementError[1] ELSE SelectLoop(lines, 0, SelectStart)

missingCommaRule(sql, originalQuery) ==
    Once(LAMBDA lines : MissingCommaChecked(lines, StatementLoop(lines, 0)),
         SplitLines(originalQuery))

(***************************************************************************)
(* rules/duplicateAliasesRule.ts.  When the parser returns a tree, tables  *)
(* is the list of the tree's FROM entries, each with its table and its     *)
(* alias (as), in the order the traversal meets them.                      *)
(***************************************************************************)
S_join == <<"j","o","i","n">>
S_as == <<"a","s">>

\* The index after the run of \w that starts at i; i itself when there is none.
RECURSIVE SkipWord(_, _)
SkipWord(s, i) == IF i <= Len(s) /\ IsWordChar(s[i]) THEN SkipWord(s, i + 1) ELSE i

\* (?:as\s+)?(\w+) at k, where a word starts: the index where the alias starts.
AliasStart(lower, k) ==
    IF /\ MatchesAt(lower, S_as, k)
       /\ k + 2 <= Len(lower)
       /\ IsSpace(lower[k + 2])
       /\ SkipSpaces(lower, k + 2) <= Len(lower)
       /\ IsWordChar(lower[SkipSpaces(lower, k + 2)])
    THEN SkipSpaces(lower, k + 2)
    ELSE k

\* A match that began at i and whose alias starts at start: match.index
\* (zero-based), match[1] and the one-based index at which the search resumes.
AliasFound(lower, i, start) ==
    Some([index |-> i - 1,
          alias |-> SubSeq(lower, start, SkipWord(lower, start) - 1),
          resume |-> SkipWord(lower, start)])

AliasAfterSpaces(lower, i, a) ==
    IF a <= Len(lower) /\ IsWordChar(lower[a])
    THEN AliasFound(lower, i, AliasStart(lower, a))
    ELSE None

AliasAfterTable(lower, i, tableEnd) ==
    IF tableEnd <= Len(lower) /\ IsSpace(lower[tableEnd])
    THEN AliasAfterSpaces(lower, i, SkipSpaces(lower, tableEnd))
    ELSE None

AliasAfterKeyword(lower, i, t) ==
    IF t <= Len(lower) /\ IsWordChar(lower[t])
    THEN AliasAfterTable(lower, i, SkipWord(lower, t))
    ELSE None

\* /\b(?:from|join)\s+\w+\s+(?:as\s+)?(\w+)/gi tried at the one-based index i
\* of the lower-cased text.
AliasMatchAt(lower, i) ==
    IF /\ i = 1 \/ ~IsWordChar(lower[i - 1])
       /\ MatchesAt(lower, S_from, i) \/ MatchesAt(lower, S_join, i)
       /\ i + 4 <= Len(lower)
       /\ IsSpace(lower[i + 4])
    THEN AliasAfterKeyword(lower, i, SkipSpaces(lower, i + 4))
    ELSE None

\* aliasRegex.exec(sql), resuming at i.
RECURSIVE NextAliasMatch(_, _)
NextAliasMatch(lower, i) ==
    IF i > Len(lower) THEN None
    ELSE Once(LAMBDA match : IF match # None THEN match ELSE NextAliasMatch(lower, i + 1),
              AliasMatchAt(lower, i))

DuplicateAliasAdvice == "Duplicate table alias: <alias>. Each table must have a unique alias. Use different names like '<alias>1', '<alias>2' or descriptive names."
DuplicateAliasPlain == "Duplicate table alias: <alias>"

\* originalQuery.substr(0, pos).split("\n").length - 1
LineIndexOfOffset(originalQuery, pos) ==
    Len(SplitLines(SubSeq(originalQuery, 1, Min2(pos, Len(originalQuery))))) - 1

\* The catch branch has met alias a second time, in the match at index.
RegexDuplicate(originalQuery, alias, index) ==
    IF Includes(originalQuery, <<"\n">>)
    THEN Invalid(Message(DuplicateAliasAdvice, alias),
                 Some(LineIndexOfOffset(originalQuery, index)), None)
    ELSE Invalid(Message(DuplicateAliasPlain, alias), None, Some(index))

\* The while loop of the catch branch.
RECURSIVE AliasRegexLoop(_, _, _, _)
AliasRegexTurn(originalQuery, lower, match, aliases) ==
    IF match = None THEN Valid
    ELSE IF match[1].alias \in aliases
    THEN RegexDuplicate(originalQuery, match[1].alias, match[1].index)
    ELSE AliasRegexLoop(originalQuery, lower, match[1].resume, aliases \cup {match[1].alias})

AliasRegexLoop(originalQuery, lower, i, aliases) ==
    Once(LAMBDA match : AliasRegexTurn(originalQuery, lower, match, aliases),
         NextAliasMatch(lower, i))

\* The for loop over tableAliases, from entry k on.
RECURSIVE TableAliasLoop(_, _, _, _)
TableAliasLoop(originalQuery, tables, k, aliases) ==
    IF k > Len(tables) THEN Valid
    ELSE IF ToLowerCase(tables[k].as) \in aliases
    THEN Invalid(Message(DuplicateAliasAdvice, ToLowerCase(tables[k].as)),
                 LineNumberOf(findLineWithPattern(originalQuery, ToLowerCase(tables[k].as),
                                                  IgnoreCase)),
                 None)
    ELSE TableAliasLoop(originalQuery, tables, k + 1,
                        aliases \cup {ToLowerCase(tables[k].as)})

\* node.table && node.as
HasTableAndAlias(node) == node.table # <<>> /\ node.as # <<>>

duplicateAliasesRule(sql, originalQuery, ast) ==
    IF ast.kind = "ast"
    THEN IF ast.select /\ ast.from
         THEN TableAliasLoop(originalQuery, SelectSeq(ast.tables, HasTableAndAlias), 1, {})
         ELSE Valid
    ELSE AliasRegexLoop(originalQuery, ToLowerCase(sql), 1, {})

(***************************************************************************)
(* rules/varsQueryMismatchRule.ts: keywordSpellingRule                     *)
(***************************************************************************)
\* sqlKeywords of this rule (the parameter rule has a list of its own).
spellingKeywords ==
    << <<"S","E","L","E","C","T">>,
       <<"F","R","O","M">>,
       <<"W","H","E","R","E">>,
       <<"A","N","D">>,
       <<"O","R">>,
       <<"O","R","D","E","R"," ","B","Y">>,
       <<"G","R","O","U","P"," ","B","Y">>,
       <<"H","A","V","I","N","G">>,
       <<"J","O","I","N">>,
       <<"L","E","F","T"," ","J","O","I","N">>,
       <<"R","I","G","H","T"," ","J","O","I","N">>,
       <<"I","N","N","E","R"," ","J","O","I","N">>,
       <<"F","U","L","L"," ","J","O","I","N">>,
       <<"O","U","T","E","R"," ","J","O","I","N">>,
       <<"C","R","O","S","S"," ","J","O","I","N">>,
       <<"O","N">>,
       <<"A","S">>,
       <<"I","N">>,
       <<"E","X","I","S","T","S">>,
       <<"N","O","T">>,
       <<"B","E","T","W","E","E","N">>,
       <<"L","I","K","E">>,
       <<"I","S"," ","N","U","L","L">>,
       <<"I","S"," ","N","O","T"," ","N","U","L","L">>,
       <<"L","I","M","I","T">>,
       <<"O","F","F","S","E","T">>,
       <<"I","N","S","E","R","T"," ","I","N","T","O">>,
       <<"V","A","L","U","E","S">>,
       <<"U","P","D","A","T","E">>,
       <<"S","E","T">>,
       <<"D","E","L","E","T","E"," ","F","R","O","M">>,
       <<"C","R","E","A","T","E"," ","T","A","B","L","E">>,
       <<"A","L","T","E","R"," ","T","A","B","L","E">>,
       <<"D","R","O","P"," ","T","A","B","L","E">>,
       <<"I","N","D","E","X">>,
       <<"U","N","I","O","N">>,
       <<"A","L","L">>,
       <<"D","I","S","T","I","N","C","T">>,
       <<"C","A","S","E">>,
       <<"W","H","E","N">>,
       <<"T","H","E","N">>,
       <<"E","L","S","E">>,
       <<"E","N","D">>,
       <<"W","I","T","H">> >>

\* commonTypos, in the order Object.entries lists it: <<typo, correction>>.
commonTypos ==
    << <<<<"S","E","L","C","T">>, <<"S","E","L","E","C","T">>>>,
       <<<<"S","L","E","C","T">>, <<"S","E","L","E","C","T">>>>,
       <<<<"S","E","L","E","T">>, <<"S","E","L","E","C","T">>>>,
       <<<<"S","E","L","E","C","T","T">>, <<"S","E","L","E","C","T">>>>,
       <<<<"S","E","K","E","C","T">>, <<"S","E","L","E","C","T">>>>,
       <<<<"F","O","R","M">>, <<"F","R","O","M">>>>,
       <<<<"F","O","M","R">>, <<"F","R","O","M">>>>,
       <<<<"F","R","O","M","T">>, <<"F","R","O","M">>>>,
       <<<<"F","R","I","M">>, <<"F","R","O","M">>>>,
       <<<<"W","E","H","R","E">>, <<"W","H","E","R","E">>>>,
       <<<<"W","H","R","E">>, <<"W","H","E","R","E">>>>,
       <<<<"W","H","E","R">>, <<"W","H","E","R","E">>>>,
       <<<<"W","H","E","E","R">>, <<"W","H","E","R","E">>>>,
       <<<<"W","H","E","R","E","E">>, <<"W","H","E","R","E">>>>,
       <<<<"H","W","E","R","E">>, <<"W","H","E","R","E">>>>,
       <<<<"W","K","E","R","E">>, <<"W","H","E","R","E">>>>,
       <<<<"W","H","E","R","R","E">>, <<"W","H","E","R","E">>>>,
       <<<<"G","R","O","O","P">>, <<"G","R","O","U","P">>>>,
       <<<<"G","R","U","O","P">>, <<"G","R","O","U","P">>>>,
       <<<<"G","O","R","U","P">>, <<"G","R","O","U","P">>>>,
       <<<<"G","R","O","P","U">>, <<"G","R","O","U","P">>>>,
       <<<<"G","R","O","U","P","P">>, <<"G","R","O","U","P">>>>,
       <<<<"O","R","D","R","E">>, <<"O","R","D","E","R">>>>,
       <<<<"O","R","D","R">>, <<"O","R","D","E","R">>>>,
       <<<<"O","R","E","D","R">>, <<"O","R","D","E","R">>>>,
       <<<<"O","R","D","E","R","B","Y">>, <<"O","R","D","E","R"," ","B","Y">>>>,
       <<<<"O","D","E","R">>, <<"O","R","D","E","R">>>>,
       <<<<"O","E","R","D","E","R">>, <<"O","R","D","E","R">>>>,
       <<<<"J","O","I","M">>, <<"J","O","I","N">>>>,
       <<<<"J","I","O","N">>, <<"J","O","I","N">>>>,
       <<<<"J","I","O","I","N">>, <<"J","O","I","N">>>>,
       <<<<"J","O","I","N","N">>, <<"J","O","I","N">>>>,
       <<<<"O","N","M">>, <<"O","N">>>>,
       <<<<"O","N","N">>, <<"O","N">>>>,
       <<<<"U","P","D","T","E">>, <<"U","P","D","A","T","E">>>>,
       <<<<"U","P","D","A","E","T">>, <<"U","P","D","A","T","E">>>>,
       <<<<"U","P","A","T","E">>, <<"U","P","D","A","T","E">>>>,
       <<<<"U","P","D","A","T","T","E">>, <<"U","P","D","A","T","E">>>>,
       <<<<"I","S","N","E","R">>, <<"I","N","S","E","R","T">>>>,
       <<<<"I","N","S","R","E","T">>, <<"I","N","S","E","R","T">>>>,
       <<<<"I","N","S","E","R">>, <<"I","N","S","E","R","T">>>>,
       <<<<"I","N","S","E","T","T">>, <<"I","N","S","E","R","T">>>>,
       <<<<"I","N","S","E","T","R">>, <<"I","N","S","E","R","T">>>>,
       <<<<"D","E","L","T","E">>, <<"D","E","L","E","T","E">>>>,
       <<<<"D","E","L","E","T","T","E">>, <<"D","E","L","E","T","E">>>>,
       <<<<"D","E","E","L","E","T","E">>, <<"D","E","L","E","T","E">>>>,
       <<<<"D","E","K","E","T","E">>, <<"D","E","L","E","T","E">>>>,
       <<<<"D","E","L","E","E","T">>, <<"D","E","L","E","T","E">>>>,
       <<<<"H","A","I","V","N","G">>, <<"H","A","V","I","N","G">>>>,
       <<<<"H","A","V","N","I","G">>, <<"H","A","V","I","N","G">>>>,
       <<<<"A","H","V","I","N","G">>, <<"H","A","V","I","N","G">>>>,
       <<<<"H","A","B","I","N","G">>, <<"H","A","V","I","N","G">>>>,
       <<<<"G","R","O","U","P","B","Y">>, <<"G","R","O","U","P"," ","B","Y">>>>,
       <<<<"I","N","N","E","R","J","O","I","N">>, <<"I","N","N","E","R"," ","J","O","I","N">>>>,
       <<<<"L","E","F","T","J","O","I","N">>, <<"L","E","F","T"," ","J","O","I","N">>>>,
       <<<<"R","I","G","H","T","J","O","I","N">>, <<"R","I","G","H","T"," ","J","O","I","N">>>>,
       <<<<"F","U","L","L","J","O","I","N">>, <<"F","U","L","L"," ","J","O","I","N">>>>,
       <<<<"O","U","T","E","R","J","O","I","N">>, <<"O","U","T","E","R"," ","J","O","I","N">>>> >>

primaryKeywords ==
    << <<"S","E","L","E","C","T">>,
       <<"F","R","O","M">>,
       <<"W","H","E","R","E">>,
       <<"G","R","O","U","P">>,
       <<"O","R","D","E","R">>,
       <<"J","O","I","N">>,
       <<"H","A","V","I","N","G">> >>

\* new RegExp(`\\b${typo}\\b`, "i").test(upperLine), for a typo made of letters
ContainsWord(upperLine, word) ==
    \E i \in 1..Len(upperLine) :
        /\ MatchesAt(upperLine, word, i)
        /\ i = 1 \/ ~IsWordChar(upperLine[i - 1])
        /\ i + Len(word) > Len(upperLine) \/ ~IsWordChar(upperLine[i + Len(word)])

\* The entries of commonTypos found on the line, in table order.
TyposOnLine(upperLine) ==
    SelectSeq(commonTypos, LAMBDA entry : ContainsWord(upperLine, entry[1]))

\* findMostSimilarWord: the loop from candidate k on, minDistance being None
\* for Infinity.
RECURSIVE MostSimilarFrom(_, _, _, _, _)
MostSimilarStep(word, possibleWords, k, minDistance, mostSimilar, distance) ==
    IF minDistance = None \/ distance < minDistance[1]
    THEN MostSimilarFrom(word, possibleWords, k + 1, Some(distance), possibleWords[k])
    ELSE MostSimilarFrom(word, possibleWords, k + 1, minDistance, mostSimilar)

MostSimilarFrom(word, possibleWords, k, minDistance, mostSimilar) ==
    IF k > Len(possibleWords) THEN mostSimilar
    ELSE Once(LAMBDA distance : MostSimilarStep(word, possibleWords, k, minDistance,
                                                mostSimilar, distance),
              levenshteinDistance(word, possibleWords[k]))

findMostSimilarWord(word, possibleWords) ==
    MostSimilarFrom(word, possibleWords, 1, None, <<>>)

KeywordTypo == "Possible typo in SQL keyword: DQUOTE<word>DQUOTE - Did you mean DQUOTE<suggestion>DQUOTE?"
KeywordFinding(word, suggestion, i) ==
    Invalid(Message(KeywordTypo, <<word, suggestion>>), Some(i), None)

RECURSIVE KeywordLoop(_, _)

\* The close-match pass has its candidates for the first word of line i.
KeywordSuggest(lines, i, firstWord, possibleKeywords) ==
    IF Len(possibleKeywords) > 0
    THEN KeywordFinding(firstWord, findMostSimilarWord(firstWord, possibleKeywords), i)
    ELSE KeywordLoop(lines, i + 1)

\* The close-match pass on the first word of line i.
KeywordFirstWord(lines, i, firstWord) ==
    IF Len(firstWord) < 3 THEN KeywordLoop(lines, i + 1)
    ELSE IF \E k \in 1..Len(spellingKeywords) : FirstWord(spellingKeywords[k]) = firstWord
    THEN KeywordLoop(lines, i + 1)
    ELSE KeywordSuggest(lines, i, firstWord,
                        SelectSeq(primaryKeywords,
                                  LAMBDA keyword : areWordsSimilar(firstWord, keyword, 1)))

\* A faulty variant of the loop body, kept to tell the property below apart
\* from ones that hold of any order of the two passes: the close-match pass
\* is made first, and the table of typos is consulted only when it is silent.
KeywordTurnCloseMatchFirst(lines, i, upperLine, typos) ==
    IF ~KeywordFirstWord(<<>>, 0, FirstWord(upperLine)).isValid
    THEN KeywordFirstWord(lines, i, FirstWord(upperLine))
    ELSE IF Len(typos) > 0 THEN KeywordFinding(typos[1][1], typos[1][2], i)
    ELSE KeywordLoop(lines, i + 1)

\* The body of the loop for the non-empty line i: the table of typos first,
\* then the close-match pass.
KeywordTurn(lines, i, upperLine, typos) ==
    IF Len(typos) > 0 THEN KeywordFinding(typos[1][1], typos[1][2], i)
    ELSE KeywordFirstWord(lines, i, FirstWord(upperLine))

KeywordLoop(lines, i) ==
    IF i >= Len(lines) THEN Valid
    ELSE IF Trim(Line0(lines, i)) = <<>> THEN KeywordLoop(lines, i + 1)
    ELSE Once(LAMBDA upperLine :
                  Once(LAMBDA typos : KeywordTurn(lines, i, upperLine, typos),
                       TyposOnLine(upperLine)),
              ToUpperCase(Trim(Line0(lines, i))))

keywordSpellingRule(sql, originalQuery) ==
    IF ~Includes(originalQuery, <<"\n">>) THEN Valid
    ELSE Once(LAMBDA lines : KeywordLoop(lines, 0), SplitLines(originalQuery))

(***************************************************************************)
(* rules/invalidJoinRule.ts.  When the parser returns a tree, tables is    *)
(* the list of its FROM entries in order; an entry has join, the kind of   *)
(* join that attaches it (<<>> for the first table), on, whether it has a  *)
(* condition, and sub, the from of the subquery it selects from (None for  *)
(* a plain table).                                                         *)
(***************************************************************************)
JoinMissingOn == "<join> statement missing ON clause. Add 'ON table1.column = table2.column' to specify join condition."
JoinMissingOnKeyword == "JOIN statement missing ON keyword. Add 'ON' before the condition on line <line>."
JoinTexts == {JoinMissingOn, JoinMissingOnKeyword}

\* checkJoins(fromClause) for an array, from entry k on, and for one entry.
RECURSIVE CheckJoinsFrom(_, _, _)
CheckJoinEntry(originalQuery, entry) ==
    IF entry.join # <<>> /\ ~entry.on
    THEN Invalid(Message(JoinMissingOn, entry.join),
                 LineNumberOf(findLineWithPattern(originalQuery, entry.join, IgnoreCase)),
                 None)
    ELSE IF entry.sub # None THEN CheckJoinsFrom(originalQuery, entry.sub[1], 1)
    ELSE Valid

CheckJoinsFrom(originalQuery, fromClause, k) ==
    IF k > Len(fromClause) THEN Valid
    ELSE Once(LAMBDA result : IF ~result.isValid THEN result
                              ELSE CheckJoinsFrom(originalQuery, fromClause, k + 1),
              CheckJoinEntry(originalQuery, fromClause[k]))

checkJoins(originalQuery, fromClause) == CheckJoinsFrom(originalQuery, fromClause, 1)

S_join_spaced == <<" ","j","o","i","n"," ">>
S_join_then_space == <<"j","o","i","n"," ">>
S_on_spaced == <<" ","o","n"," ">>
S_on_then_space == <<"o","n"," ">>
JoinKinds ==
    << <<"i","n","n","e","r">>, <<"l","e","f","t">>, <<"r","i","g","h","t">>,
       <<"f","u","l","l">>, <<"o","u","t","e","r">>, <<"c","r","o","s","s">> >>
KindJoin(kind) == kind \o <<" ">> \o S_join

\* extractJoinType(line)
extractJoinType(line) ==
    IF \E k \in 1..Len(JoinKinds) : Includes(ToLowerCase(line), KindJoin(JoinKinds[k]))
    THEN KindJoin(JoinKinds[CHOOSE k \in 1..Len(JoinKinds) :
                      /\ Includes(ToLowerCase(line), KindJoin(JoinKinds[k]))
                      /\ \A j \in 1..(k - 1) :
                             ~Includes(ToLowerCase(line), KindJoin(JoinKinds[j]))])
    ELSE S_join

\* The joinType the first pass gives the trimmed, lower-cased line; <<>> for "".
JoinTypeOfLine(trimmedLine) ==
    IF trimmedLine = S_join \/ StartsWith(trimmedLine, S_join_then_space) THEN S_join
    ELSE IF \/ Includes(trimmedLine, S_join_spaced)
            \/ \E k \in 1..5 :
                   Includes(trimmedLine, <<" ">> \o KindJoin(JoinKinds[k]) \o <<" ">>)
    THEN extractJoinType(trimmedLine)
    ELSE IF Includes(trimmedLine, <<" ">> \o KindJoin(JoinKinds[6]) \o <<" ">>)
    THEN KindJoin(JoinKinds[6])
    ELSE <<>>

IsIdentStart(c) == IsUpper(c) \/ IsLowerLetter(c) \/ c = "_"

\* (\s+on\s+|$) at the one-based index e
TableNameTail(t, e) ==
    \/ e > Len(t)
    \/ /\ IsSpace(t[e])
       /\ MatchesAt(t, <<"o","n">>, SkipSpaces(t, e))
       /\ SkipSpaces(t, e) + 2 <= Len(t)
       /\ IsSpace(t[SkipSpaces(t, e) + 2])

\* /^(inner|left|right|full|outer|cross)\s+join$/
IsKindJoinAlone(t) ==
    \E k \in 1..Len(JoinKinds) :
        /\ StartsWith(t, JoinKinds[k])
        /\ Len(t) > Len(JoinKinds[k])
        /\ IsSpace(t[Len(JoinKinds[k]) + 1])
        /\ SuffixFrom(t, SkipSpaces(t, Len(JoinKinds[k]) + 1)) = S_join

\* /^[a-zA-Z_][a-zA-Z0-9_]*(\s+[a-zA-Z_][a-zA-Z0-9_]*)?(\s+on\s+|$)/i
LooksLikeTableName(t) ==
    /\ t # <<>>
    /\ IsIdentStart(t[1])
    /\ \/ TableNameTail(t, SkipWord(t, 1))
       \/ /\ SkipWord(t, 1) <= Len(t)
          /\ IsSpace(t[SkipWord(t, 1)])
          /\ SkipSpaces(t, SkipWord(t, 1)) <= Len(t)
          /\ IsIdentStart(t[SkipSpaces(t, SkipWord(t, 1))])
          /\ TableNameTail(t, SkipWord(t, SkipSpaces(t, SkipWord(t, 1))))

TableNameIn(trimmed) ==
    IF trimmed = S_join \/ IsKindJoinAlone(trimmed) THEN FALSE
    ELSE LooksLikeTableName(trimmed)

hasTableNameInLine(line) == Once(TableNameIn, Trim(ToLowerCase(line)))

\* /[a-zA-Z_][a-zA-Z0-9_]*\.[a-zA-Z_][a-zA-Z0-9_]*/
HasTableColumnPattern(t) ==
    \E i \in 1..Len(t) :
        /\ IsIdentStart(t[i])
        /\ SkipWord(t, i) + 1 <= Len(t)
        /\ t[SkipWord(t, i)] = "."
        /\ IsIdentStart(t[SkipWord(t, i) + 1])

IsDottedChar(c) == IsWordChar(c) \/ c = "."

\* /[a-zA-Z_][a-zA-Z0-9_.]*\s*=\s*[a-zA-Z_][a-zA-Z0-9_.]*/
HasComparisonPattern(t) ==
    \E i \in 1..Len(t) : \E j \in i..Len(t) :
        /\ IsIdentStart(t[i])
        /\ \A k \in (i + 1)..j : IsDottedChar(t[k])
        /\ SkipSpaces(t, j + 1) <= Len(t)
        /\ t[SkipSpaces(t, j + 1)] = "="
        /\ SkipSpaces(t, SkipSpaces(t, j + 1) + 1) <= Len(t)
        /\ IsIdentStart(t[SkipSpaces(t, SkipSpaces(t, j + 1) + 1)])

ConditionWithoutOn(trimmed) ==
    /\ Includes(trimmed, <<"=">>)
    /\ ~StartsWith(trimmed, S_on_then_space)
    /\ HasTableColumnPattern(trimmed)
    /\ HasComparisonPattern(trimmed)

isJoinConditionWithoutOn(line) == Once(ConditionWithoutOn, Trim(ToLowerCase(line)))

\* /^(select|from|where|group\s+by|order\s+by|having|limit|union|join)/
StartsWithThenBy(s, first) ==
    /\ StartsWith(s, first)
    /\ Len(s) > Len(first)
    /\ IsSpace(s[Len(first) + 1])
    /\ MatchesAt(s, <<"b","y">>, SkipSpaces(s, Len(first) + 1))

StartsSqlKeyword(lowerLine) ==
    \/ \E word \in {S_select, S_from, S_where, <<"h","a","v","i","n","g">>,
                    <<"l","i","m","i","t">>, <<"u","n","i","o","n">>, S_join} :
           StartsWith(lowerLine, word)
    \/ StartsWithThenBy(lowerLine, <<"g","r","o","u","p">>)
    \/ StartsWithThenBy(lowerLine, <<"o","r","d","e","r">>)

\* A join structure: the fields of it that decide the result.
JoinStructure(joinLineIndex, joinType) ==
    [joinLineIndex |-> joinLineIndex, joinType |-> joinType, hasProperOnClause |-> FALSE,
     hasMissingOnKeyword |-> FALSE, conditionLineIndex |-> None]

\* The loop of analyzeJoinStructure over the following lines, from index i on.
RECURSIVE FollowingLines(_, _, _)
FollowingLine(lines, i, joinStructure, lowerLine) ==
    IF StartsSqlKeyword(lowerLine) /\ ~StartsWith(lowerLine, S_join) THEN joinStructure
    ELSE IF Includes(lowerLine, S_on_spaced) \/ StartsWith(lowerLine, S_on_then_space)
    THEN [joinStructure EXCEPT !.hasProperOnClause = TRUE]
    ELSE IF ConditionWithoutOn(lowerLine)
    THEN [joinStructure EXCEPT !.hasMissingOnKeyword = TRUE, !.conditionLineIndex = Some(i)]
    ELSE FollowingLines(lines, i + 1, joinStructure)

FollowingLines(lines, i, joinStructure) ==
    IF i >= Min2(joinStructure.joinLineIndex + 5, Len(lines)) THEN joinStructure
    ELSE IF Trim(Line0(lines, i)) = <<>> THEN FollowingLines(lines, i + 1, joinStructure)
    ELSE Once(LAMBDA lowerLine : FollowingLine(lines, i, joinStructure, lowerLine),
              ToLowerCase(Trim(Line0(lines, i))))

\* analyzeJoinStructure(lines, joinLineIndex, joinStructure): the structure as
\* the call leaves it.
analyzeJoinStructure(lines, joinLineIndex, joinStructure) ==
    IF /\ hasTableNameInLine(Trim(Line0(lines, joinLineIndex)))
       /\ Includes(ToLowerCase(Trim(Line0(lines, joinLineIndex))), S_on_spaced)
    THEN [joinStructure EXCEPT !.hasProperOnClause = TRUE]
    ELSE FollowingLines(lines, joinLineIndex + 1, joinStructure)

\* First pass: the join structures of the lines from index i on, in order.
RECURSIVE JoinStructuresFrom(_, _)
JoinStructureAt(lines, i, joinType) ==
    IF joinType = <<>> THEN JoinStructuresFrom(lines, i + 1)
    ELSE <<analyzeJoinStructure(lines, i, JoinStructure(i, joinType))>>
             \o JoinStructuresFrom(lines, i + 1)

JoinStructuresFrom(lines, i) ==
    IF i >= Len(lines) THEN <<>>
    ELSE Once(LAMBDA joinType : JoinStructureAt(lines, i, joinType),
              JoinTypeOfLine(ToLowerCase(Trim(Line0(lines, i)))))

\* Second pass, from structure k on.
RECURSIVE JoinErrorsFrom(_, _)
JoinErrorsFrom(joinStructures, k) ==
    IF k > Len(joinStructures) THEN Valid
    ELSE IF Includes(joinStructures[k].joinType, <<"c","r","o","s","s">>)
    THEN JoinErrorsFrom(joinStructures, k + 1)
    ELSE IF /\ joinStructures[k].hasMissingOnKeyword
            /\ joinStructures[k].conditionLineIndex # None
    THEN Invalid(Message(JoinMissingOnKeyword, joinStructures[k].conditionLineIndex[1] + 1),
                 joinStructures[k].conditionLineIndex, None)
    ELSE IF ~joinStructures[k].hasProperOnClause /\ ~joinStructures[k].hasMissingOnKeyword
    THEN Invalid(Message(JoinMissingOn, <<"J","O","I","N">>),
                 Some(joinStructures[k].joinLineIndex), None)
    ELSE JoinErrorsFrom(joinStructures, k + 1)

checkJoinStringBased(originalQuery) ==
    Once(LAMBDA joinStructures : JoinErrorsFrom(joinStructures, 1),
         JoinStructuresFrom(SplitLines(originalQuery), 0))

invalidJoinRule(sql, originalQuery, ast) ==
    IF ast.kind = "ast"
    THEN IF ast.select THEN checkJoins(originalQuery, ast.tables) ELSE Valid
    ELSE IF Includes(ToLowerCase(sql), S_join) THEN checkJoinStringBased(originalQuery)
    ELSE Valid

(***************************************************************************)
(* rules/credentialMutualExclusionRule.ts.  The loop keeps whether it is   *)
(* inside a credentials section and the index of the last line seen there  *)
(* for each of the two keys (None while the key has not been seen).        *)
(***************************************************************************)
S_credentials == <<"c","r","e","d","e","n","t","i","a","l","s",":">>
S_random_password == <<"r","a","n","d","o","m","_","p","a","s","s","w","o","r","d",":">>
S_no_password == <<"n","o","_","p","a","s","s","w","o","r","d",":">>
CredentialConflict ==
    "Only one credential strategy is allowed. Choose either 'random_password' or 'no_password', not both."

CredentialStart ==
    [insideCredentials |-> FALSE, randomPasswordLine |-> None, noPasswordLine |-> None]

\* One turn of the loop on lines[i]: raw is the line, line its trimmed
\* lower-case form, i its zero-based index.
CredentialTurn(raw, line, i, st) ==
    IF Includes(line, S_credentials)
    THEN [st EXCEPT !.insideCredentials = TRUE]
    ELSE IF ~st.insideCredentials THEN st
    ELSE IF Len(line) > 0 /\ ~StartsWith(raw, <<" ">>) /\ ~StartsWith(raw, <<"\t">>)
    THEN [st EXCEPT !.insideCredentials = FALSE]
    ELSE [st EXCEPT
             !.randomPasswordLine =
                 IF Includes(line, S_random_password) THEN Some(i) ELSE @,
             !.noPasswordLine =
                 IF Includes(line, S_no_password) THEN Some(i) ELSE @]

RECURSIVE CredentialLoop(_, _, _)
CredentialLoop(lines, i, st) ==
    IF i >= Len(lines) THEN st
    ELSE CredentialLoop(lines, i + 1,
             Once(LAMBDA line : CredentialTurn(lines[i + 1], line, i, st),
                  ToLowerCase(Trim(lines[i + 1]))))

CredentialVerdict(st) ==
    IF st.randomPasswordLine # None /\ st.noPasswordLine # None
    THEN Invalid(Message(CredentialConflict, <<>>),
                 Some(Min2(st.randomPasswordLine[1], st.noPasswordLine[1])), None)
    ELSE Valid

credentialMutualExclusionRule(sql, originalQuery) ==
    Once(CredentialVerdict, CredentialLoop(SplitLines(originalQuery), 0, CredentialStart))

(***************************************************************************)
(* rules/invalidGroupByRule.ts.  When the parser returns a tree, columns   *)
(* is the list of the types of its select expressions ("aggr_func",        *)
(* "column_ref" or another type) and groupby whether it has a GROUP BY.    *)
(***************************************************************************)
GroupByMessage ==
    Message("Mixing aggregate functions with non-aggregated columns requires GROUP BY. Add 'GROUP BY column_name' or use only aggregate functions.", <<>>)

AggregateNames ==
    <<<<"c","o","u","n","t">>,
      <<"s","u","m">>,
      <<"a","v","g">>,
      <<"m","i","n">>,
      <<"m","a","x">>,
      <<"g","r","o","u","p","_","c","o","n","c","a","t">>>>
S_group == <<"g","r","o","u","p">>
S_by == <<"b","y">>
S_count == <<"c","o","u","n","t">>

IsCharAt(t, i, c) == i <= Len(t) /\ t[i] = c
WordEdgeBefore(t, i) == i = 1 \/ ~IsWordChar(t[i - 1])
WordEdgeAfter(t, i) == i > Len(t) \/ ~IsWordChar(t[i])

\* /(count|sum|avg|min|max|group_concat)\s*\(/i
AggregateCallAt(t, i) ==
    \E k \in 1..Len(AggregateNames) :
        /\ MatchesAt(t, AggregateNames[k], i)
        /\ IsCharAt(t, SkipSpaces(t, i + Len(AggregateNames[k])), "(")
LowerHasAggregateCall(t) == \E i \in 1..Len(t) : AggregateCallAt(t, i)
HasAggregateCall(s) == Once(LowerHasAggregateCall, ToLowerCase(s))

\* /\bgroup\s+by\b/i
GroupByAt(t, i) ==
    /\ MatchesAt(t, S_group, i)
    /\ WordEdgeBefore(t, i)
    /\ SkipSpaces(t, i + 5) > i + 5
    /\ MatchesAt(t, S_by, SkipSpaces(t, i + 5))
    /\ WordEdgeAfter(t, SkipSpaces(t, i + 5) + 2)
LowerHasGroupBy(t) == \E i \in 1..Len(t) : GroupByAt(t, i)
HasGroupByWords(s) == Once(LowerHasGroupBy, ToLowerCase(s))

\* /\bcount\s*\(\s*\*\s*\)/i
CountStarAt(t, i) ==
    /\ MatchesAt(t, S_count, i)
    /\ WordEdgeBefore(t, i)
    /\ IsCharAt(t, SkipSpaces(t, i + 5), "(")
    /\ IsCharAt(t, SkipSpaces(t, SkipSpaces(t, i + 5) + 1), "*")
    /\ IsCharAt(t, SkipSpaces(t, SkipSpaces(t, SkipSpaces(t, i + 5) + 1) + 1), ")")
LowerHasCountStar(t) == \E i \in 1..Len(t) : CountStarAt(t, i)
HasCountStar(s) == Once(LowerHasCountStar, ToLowerCase(s))

\* String.prototype.substring(start, end), zero-based: each index is clamped
\* to 0..length and the smaller of the two is the start.
ClampIndex(s, i) == Max2(0, Min2(i, Len(s)))
Substring(s, start, end) ==
    SubSeq(s, Min2(ClampIndex(s, start), ClampIndex(s, end)) + 1,
              Max2(ClampIndex(s, start), ClampIndex(s, end)))

\* s.split(","): the pieces of s between its commas, at least one.
RECURSIVE SplitCommas(_)
SplitCommas(s) ==
    IF Includes(s, <<",">>)
    THEN <<SubSeq(s, 1, IndexOf(s, <<",">>))>>
             \o SplitCommas(SuffixFrom(s, IndexOf(s, <<",">>) + 2))
    ELSE <<s>>

\* What the fallback takes for the select list: from after "select" to
\* before " from ".
SelectListOf(sql, lower) ==
    Substring(sql, IndexOf(lower, S_select) + 6, IndexOf(lower, S_from_spaced))
SelectListPieces(sql) ==
    SplitCommas(Once(LAMBDA lower : SelectListOf(sql, lower), ToLowerCase(sql)))
HasPlainPiece(columns) == \E k \in 1..Len(columns) : ~HasAggregateCall(columns[k])

SelectLinesOf(lines) ==
    {i \in 0..(Len(lines) - 1) : StartsWith(ToLowerCase(Trim(lines[i + 1])), S_select)}
GroupByAtSelectLine(sql, lines) ==
    IF SelectLinesOf(lines) # {}
    THEN Invalid(GroupByMessage,
                 Some(CHOOSE i \in SelectLinesOf(lines) : \A j \in SelectLinesOf(lines) : i <= j),
                 None)
    ELSE Invalid(GroupByMessage, None, Some(IndexOf(ToLowerCase(sql), S_select)))
GroupByFinding(sql, originalQuery) ==
    IF Includes(originalQuery, <<"\n">>)
    THEN Once(LAMBDA lines : GroupByAtSelectLine(sql, lines), SplitLines(originalQuery))
    ELSE Invalid(GroupByMessage, None, Some(IndexOf(ToLowerCase(sql), S_select)))

GroupByStringBased(sql, originalQuery) ==
    IF HasAggregateCall(sql) /\ ~HasGroupByWords(sql) /\ ~HasCountStar(sql)
    THEN IF Once(HasPlainPiece, SelectListPieces(sql))
         THEN GroupByFinding(sql, originalQuery)
         ELSE Valid
    ELSE Valid

ColumnsHave(ast, type) == \E k \in 1..Len(ast.columns) : ast.columns[k] = type

invalidGroupByRule(sql, originalQuery, ast) ==
    IF ast.kind = "ast"
    THEN IF /\ ast.select
            /\ ColumnsHave(ast, "aggr_func")
            /\ ColumnsHave(ast, "column_ref")
            /\ ~ast.groupby
         THEN Invalid(GroupByMessage,
                      LineNumberOf(findLineWithPattern(originalQuery, S_select, IgnoreCase)),
                      None)
         ELSE Valid
    ELSE GroupByStringBased(sql, originalQuery)

(***************************************************************************)
(* rules/trailingCommaRule.ts.  The rule is defined in the repository but  *)
(* rules/index.ts neither exports it nor lists it in allValidationRules.   *)
(***************************************************************************)
IsCommentLine(line) == StartsWith(line, <<"-", "-">>) \/ StartsWith(line, <<"#">>)

\* findNextNonEmptyLine of this file: comment lines are skipped too.
RECURSIVE findNextCodeLine(_, _)
findNextCodeLine(lines, startIndex) ==
    IF startIndex >= Len(lines) THEN None
    ELSE IF Trim(Line0(lines, startIndex)) # <<>> /\ ~IsCommentLine(Trim(Line0(lines, startIndex)))
    THEN Some(Trim(Line0(lines, startIndex)))
    ELSE findNextCodeLine(lines, startIndex + 1)

\* findPreviousNonEmptyLine(lines, startIndex): None, or the line and its index.
RECURSIVE findPreviousNonEmptyLine(_, _)
findPreviousNonEmptyLine(lines, startIndex) ==
    IF startIndex < 0 THEN None
    ELSE IF Trim(Line0(lines, startIndex)) # <<>> /\ ~IsCommentLine(Trim(Line0(lines, startIndex)))
    THEN Some([line |-> Line0(lines, startIndex), index |-> startIndex])
    ELSE findPreviousNonEmptyLine(lines, startIndex - 1)

\* word at the start of s, followed by \b
StartsWithWord(s, word) ==
    StartsWith(s, word) /\ (Len(s) = Len(word) \/ ~IsWordChar(s[Len(word) + 1]))

\* first, then \s+, then "by", then \b
StartsWithTwoWords(s, first) ==
    /\ StartsWith(s, first)
    /\ Len(s) > Len(first)
    /\ IsSpace(s[Len(first) + 1])
    /\ StartsWithWord(SuffixFrom(s, SkipSpaces(s, Len(first) + 1)), <<"b", "y">>)

\* /^(where|group\s+by|order\s+by|having|limit|offset|union|except|intersect)\b/i
EndsColumnList(lowerLine) ==
    \/ \E word \in {S_where, <<"h","a","v","i","n","g">>, <<"l","i","m","i","t">>,
                    <<"o","f","f","s","e","t">>, <<"u","n","i","o","n">>,
                    <<"e","x","c","e","p","t">>, <<"i","n","t","e","r","s","e","c","t">>} :
           StartsWithWord(lowerLine, word)
    \/ StartsWithTwoWords(lowerLine, <<"g","r","o","u","p">>)
    \/ StartsWithTwoWords(lowerLine, <<"o","r","d","e","r">>)

TrailingBeforeFrom == "Trailing comma found after last column in SELECT statement. Remove the comma before FROM clause."
TrailingBeforeClause == "Trailing comma found after last column in SELECT statement. Remove the comma before the clause."
TrailingBeforeNext == "Trailing comma found after last column in SELECT statement. Remove the comma before the next clause."
TrailingCommaTexts == {TrailingBeforeFrom, TrailingBeforeClause, TrailingBeforeNext}

EndsWithComma(s) == EndsWithText(Trim(s), <<",">>)

\* The loop of checkTrailingCommaString over the lines from index i on.
RECURSIVE TrailingLoop(_, _, _)
\* The line starts with "select".
TrailingAtSelect(lines, i, line, lowerLine) ==
    IF Includes(lowerLine, S_from_spaced)
    THEN IF EndsWithComma(SubSeq(line, 1, IndexOf(lowerLine, S_from_spaced)))
         THEN Invalid(Message(TrailingBeforeFrom, <<>>), Some(i), None)
         ELSE TrailingLoop(lines, i + 1, FALSE)
    ELSE IF /\ EndsWithComma(line)
            /\ findNextCodeLine(lines, i + 1) # None
            /\ StartsWith(Trim(ToLowerCase(findNextCodeLine(lines, i + 1)[1])), S_from)
    THEN Invalid(Message(TrailingBeforeFrom, <<>>), Some(i), None)
    ELSE TrailingLoop(lines, i + 1, TRUE)

\* The line starts a clause that ends the column list.
TrailingAtClause(lines, i, text, prevLineInfo) ==
    IF prevLineInfo # None /\ EndsWithComma(prevLineInfo[1].line)
    THEN Invalid(Message(text, <<>>), Some(prevLineInfo[1].index), None)
    ELSE TrailingLoop(lines, i + 1, FALSE)

\* A line inside the column list that ends with a comma.
TrailingAtComma(lines, i, nextNonEmptyLine) ==
    IF /\ nextNonEmptyLine # None
       /\ \/ StartsWith(Trim(ToLowerCase(nextNonEmptyLine[1])), S_from)
          \/ EndsColumnList(Trim(ToLowerCase(nextNonEmptyLine[1])))
    THEN Invalid(Message(TrailingBeforeNext, <<>>), Some(i), None)
    ELSE TrailingLoop(lines, i + 1, TRUE)

TrailingTurn(lines, i, inSelectClause, line, lowerLine) ==
    IF StartsWith(lowerLine, S_select) THEN TrailingAtSelect(lines, i, line, lowerLine)
    ELSE IF inSelectClause /\ StartsWith(lowerLine, S_from)
    THEN TrailingAtClause(lines, i, TrailingBeforeFrom, findPreviousNonEmptyLine(lines, i - 1))
    ELSE IF inSelectClause /\ EndsColumnList(lowerLine)
    THEN TrailingAtClause(lines, i, TrailingBeforeClause, findPreviousNonEmptyLine(lines, i - 1))
    ELSE IF inSelectClause /\ EndsWithText(line, <<",">>)
    THEN TrailingAtComma(lines, i, findNextCodeLine(lines, i + 1))
    ELSE TrailingLoop(lines, i + 1, inSelectClause)

TrailingLoop(lines, i, inSelectClause) ==
    IF i >= Len(lines) THEN Valid
    ELSE IF Trim(Line0(lines, i)) = <<>> THEN TrailingLoop(lines, i + 1, inSelectClause)
    ELSE Once(LAMBDA line : TrailingTurn(lines, i, inSelectClause, line, ToLowerCase(line)),
              Trim(Line0(lines, i)))

checkTrailingCommaString(sql, originalQuery) ==
    IF ~Includes(originalQuery, <<",">>) THEN Valid
    ELSE Once(LAMBDA lines : TrailingLoop(lines, 0, FALSE), SplitLines(originalQuery))

trailingCommaRule(sql, originalQuery) == checkTrailingCommaString(sql, originalQuery)

(***************************************************************************)
(* rules/index.ts: allValidationRules, in list order.                      *)
(***************************************************************************)
allValidationRules ==
    <<"missing-comma", "missing-from", "unclosed-parentheses", "invalid-join",
      "ambiguous-columns", "invalid-group-by", "invalid-order-by", "duplicate-aliases",
      "keyword-spelling", "property-name-typos", "baton-parameter-validation",
      "credential-mutual-exclusion">>

\* The rules whose line scans and tree walks are not spelled out here.  A run
\* fixes what each of them does: it stays silent, reports a finding with a
\* message, reports one without a message, or throws.  Where a run sets the
\* mode of a rule to "coded", the rule's own code decides.
ScanRules ==
    {"missing-comma", "invalid-join", "ambiguous-columns", "invalid-group-by",
     "invalid-order-by", "duplicate-aliases", "keyword-spelling",
     "credential-mutual-exclusion"}
ScanModes == {"silent", "finding", "bare", "throw"}

scanRule(name, mode) ==
    CASE mode = "silent" -> Valid
      [] mode = "finding" -> Invalid(Message("<finding of rule>", name), None, None)
      [] mode = "bare" -> Invalid(None, None, None)
      [] mode = "throw" -> Thrown

\* rule.validate(normalizedSql, originalQuery) for the rule called name.
RuleValidate(name, sql, originalQuery, ast, modes) ==
    CASE name = "missing-from" -> missingFromRule(sql, originalQuery, ast)
      [] name = "unclosed-parentheses" -> unclosedParenthesesRule(sql, originalQuery, ast)
      [] name = "property-name-typos" -> propertyNameTyposRule(sql, originalQuery)
      [] name = "baton-parameter-validation" -> batonParameterValidationRule(sql, originalQuery)
      [] name = "missing-comma" /\ modes[name] = "coded" ->
             missingCommaRule(sql, originalQuery)
      [] OTHER -> scanRule(name, modes[name])

(***************************************************************************)
(* validation/sqlValidator.ts: validateSql and clearValidationCache.       *)
(***************************************************************************)
DefaultMessage(name) == Message("Validation failed for rule: <name>", name)

\* { ...result, errorMessage: result.errorMessage || default }
Finding(name, result) ==
    [result EXCEPT !.errorMessage = IF @ = None THEN DefaultMessage(name) ELSE @]

\* Three faulty variants of one turn of the loop, kept to tell the properties
\* below apart from ones that hold of any loop: without the try/catch, a throw
\* leaves validateSql; with a catch that resets the list, a throw drops the
\* earlier findings; with unshift for push, the findings come out reversed.
ApplyRuleNoCatch(run, name, outcome) ==
    IF IsThrown(outcome)
    THEN [run EXCEPT !.invoked = Append(@, name), !.raised = TRUE]
    ELSE IF ~outcome.isValid
         THEN [run EXCEPT !.invoked = Append(@, name),
                          !.results = Append(@, Finding(name, outcome))]
         ELSE [run EXCEPT !.invoked = Append(@, name)]

ApplyRuleResetOnThrow(run, name, outcome) ==
    IF IsThrown(outcome)
    THEN [run EXCEPT !.invoked = Append(@, name), !.results = <<>>]
    ELSE IF ~outcome.isValid
         THEN [run EXCEPT !.invoked = Append(@, name),
                          !.results = Append(@, Finding(name, outcome))]
         ELSE [run EXCEPT !.invoked = Append(@, name)]

ApplyRuleUnshift(run, name, outcome) ==
    IF IsThrown(outcome)
    THEN [run EXCEPT !.invoked = Append(@, name)]
    ELSE IF ~outcome.isValid
         THEN [run EXCEPT !.invoked = Append(@, name),
                          !.results = <<Finding(name, outcome)>> \o @]
         ELSE [run EXCEPT !.invoked = Append(@, name)]

\* One turn of the loop: the rule is invoked inside try/catch.  run holds the
\* results so far, the rules invoked so far and whether an exception escaped.
ApplyRule(run, name, outcome) ==
    LET invoked == [run EXCEPT !.invoked = Append(@, name)]
    IN  IF IsThrown(outcome) THEN invoked
        ELSE IF ~outcome.isValid
             THEN [invoked EXCEPT !.results = Append(@, Finding(name, outcome))]
             ELSE invoked

RECURSIVE ApplyRulesFrom(_, _, _, _, _, _)
ApplyRulesFrom(i, run, normalizedSql, originalQuery, ast, modes) ==
    IF i > Len(allValidationRules) \/ run.raised THEN run
    ELSE Once(LAMBDA outcome :
                  Once(LAMBDA next : ApplyRulesFrom(i + 1, next, normalizedSql,
                                                    originalQuery, ast, modes),
                       ApplyRule(run, allValidationRules[i], outcome)),
              RuleValidate(allValidationRules[i], normalizedSql, originalQuery, ast, modes))

\* hashString(normalizedSql + originalQuery)
CacheKey(sql, originalQuery) == hashString(normalizeSQL(sql) \o originalQuery)

\* validateSql(sql, originalQuery) on the cache `cache`, the parser answering
\* `ast` for the normalized text: what it returns and the cache it leaves.
NewRun == [results |-> <<>>, invoked |-> <<>>, raised |-> FALSE]
\* The body of validateSql once the text is normalized and the key computed.
validateSqlFrom(normalizedSql, cacheKey, originalQuery, cache, ast, modes) ==
    IF cacheKey \in DOMAIN cache
    THEN [hit |-> TRUE, raised |-> FALSE, results |-> cache[cacheKey],
          invoked |-> <<>>, cache |-> cache]
    ELSE Once(LAMBDA run :
           IF run.raised
           THEN [hit |-> FALSE, raised |-> TRUE, results |-> <<>>,
                 invoked |-> run.invoked, cache |-> cache]
           ELSE [hit |-> FALSE, raised |-> FALSE, results |-> run.results,
                 invoked |-> run.invoked,
                 cache |-> (cacheKey :> run.results) @@ cache],
           ApplyRulesFrom(1, NewRun, normalizedSql, originalQuery, ast, modes))

validateSql(sql, originalQuery, cache, ast, modes) ==
    Once(LAMBDA normalizedSql :
      Once(LAMBDA cacheKey :
        validateSqlFrom(normalizedSql, cacheKey, originalQuery, cache, ast, modes),
        hashString(normalizedSql \o originalQuery)),
      normalizeSQL(sql))

\* clearValidationCache()
clearValidationCache(cache) == <<>>

(***************************************************************************)
(* The dispatcher as its callers drive it: validateSql on texts drawn from *)
(* a small set, and clearValidationCache.                                  *)
(***************************************************************************)
Q_empty == <<>>
Q_blank == <<" ">>
Q_select_id == <<"s","e","l","e","c","t"," ","i","d">>
Q_bad_param == <<"i","d"," ","="," ","?","<","1","b",">">>
Q_garbage == <<"@","!">>

\* The calls made: <<sql, originalQuery>>.
Calls ==
    {<<Q_select_id, Q_select_id>>, <<Q_select_id, Q_empty>>, <<Q_empty, Q_select_id>>,
     <<Q_bad_param, Q_bad_param>>}

AllSilent == [r \in ScanRules |-> "silent"]

NoCall == [called |-> FALSE]

CoreInit(modes) ==
    /\ norm = NormIdle
    /\ ruleRun = [stage |-> "idle"]
    /\ validationCache = <<>>
    /\ cacheOrigin = <<>>
    /\ astMemo = <<>>
    /\ ruleMode = modes
    /\ lastCall = NoCall
    /\ DocIdle

\* The parser's answers open for a text: the one it gave before, else any.
AstAnswers(text) ==
    IF text \in DOMAIN astMemo THEN {astMemo[text]} ELSE AstOutcomes

\* One call validateSql(sql, originalQuery).
ValidateSqlCall(sql, originalQuery) ==
    \E normalizedSql \in {normalizeSQL(sql)} :
      \E cacheKey \in {hashString(normalizedSql \o originalQuery)} :
        /\ cacheKey \in DOMAIN validationCache
               \/ Cardinality(DOMAIN validationCache) < MaxCached
        /\ \E ast \in IF cacheKey \in DOMAIN validationCache
                       THEN {CHOOSE a \in AstAnswers(normalizedSql) : TRUE}
                       ELSE AstAnswers(normalizedSql) :
            \E out \in {validateSqlFrom(normalizedSql, cacheKey, originalQuery,
                                        validationCache, ast, ruleMode)} :
                /\ validationCache' = out.cache
                /\ cacheOrigin' =
                       IF out.hit \/ out.raised THEN cacheOrigin
                       ELSE (cacheKey :> <<sql, originalQuery>>) @@ cacheOrigin
                /\ astMemo' = IF out.hit THEN astMemo ELSE (normalizedSql :> ast) @@ astMemo
                /\ lastCall' = [called |-> TRUE, sql |-> sql, originalQuery |-> originalQuery,
                                cacheKey |-> cacheKey, hit |-> out.hit, raised |-> out.raised,
                                results |-> out.results, invoked |-> out.invoked]
                /\ UNCHANGED <<norm, ruleRun, ruleMode, docVars>>

ClearValidationCache ==
    /\ validationCache # <<>>
    /\ validationCache' = clearValidationCache(validationCache)
    /\ cacheOrigin' = <<>>
    /\ UNCHANGED <<norm, ruleRun, astMemo, ruleMode, lastCall, docVars>>

Validate == \E call \in Calls : ValidateSqlCall(call[1], call[2])

Init == CoreInit(AllSilent)
Next == Validate \/ ClearValidationCache
Spec == Init /\ [][Next]_vars

(***************************************************************************)
(* Properties of the cache and of the findings of one call.                *)
(***************************************************************************)
\* What validateSql computes for the last call's arguments on an empty cache,
\* for each answer the parser can still give for the normalized text.
UncachedResults ==
    {validateSql(lastCall.sql, lastCall.originalQuery, <<>>, ast, ruleMode).results :
        ast \in AstAnswers(normalizeSQL(lastCall.sql))}

\* C3: the list returned on a cache hit equals the list the uncached
\* computation produces for the same (sql, originalQuery), also after other
\* calls and after clearValidationCache.
C3_CacheHitEqualsUncached ==
    (lastCall.called /\ lastCall.hit) => lastCall.results \in UncachedResults

\* C4: a cached list is used only for the pair it was computed from: a call
\* that hits the cache has the very (sql, originalQuery) that stored the entry.
C4_CacheEntryOnlyForItsPair ==
    (lastCall.called /\ lastCall.hit) =>
        cacheOrigin[lastCall.cacheKey] = <<lastCall.sql, lastCall.originalQuery>>

\* C7: every finding computed by a call that carries a lineNumber has
\* 0 <= lineNumber < number of lines of originalQuery.
C7_LineNumberWithinQuery ==
    (lastCall.called /\ ~lastCall.hit) =>
        \A k \in 1..Len(lastCall.results) :
            lastCall.results[k].lineNumber # None =>
                /\ lastCall.results[k].lineNumber[1] >= 0
                /\ lastCall.results[k].lineNumber[1] < Len(SplitLines(lastCall.originalQuery))

\* The text holds a named parameter whose name is not a valid identifier.
HasInvalidParamName(text) ==
    \E m \in 1..Len(ParamMatchesFrom(text, 1)) :
        LET name == Trim(ParamMatchesFrom(text, 1)[m].name)
        IN  name # <<>> /\ ~IsIdentifier(name)

BatonFindings(results) ==
    {k \in 1..Len(results) : results[k].errorMessage[1].text \in BatonTexts}

\* C8: a call whose sql holds a named parameter with an invalid name returns
\* exactly one finding of baton-parameter-validation, reporting that name.
C8_InvalidParamNameReported ==
    (lastCall.called /\ ~lastCall.hit /\ HasInvalidParamName(lastCall.sql)) =>
        /\ Cardinality(BatonFindings(lastCall.results)) = 1
        /\ \A k \in BatonFindings(lastCall.results) :
               lastCall.results[k].errorMessage[1].text = BatonInvalidName

(***************************************************************************)
(* Runs in which rules misbehave.  The first, a middle and the last rule   *)
(* of the list may each stay silent, report with or without a message, or  *)
(* throw; the parser may fail on any text.                                 *)
(***************************************************************************)
DeviantRules == {"missing-comma", "invalid-order-by", "credential-mutual-exclusion"}
FaultProfiles ==
    {[r \in ScanRules |-> IF r \in DeviantRules THEN d[r] ELSE "silent"] :
        d \in [DeviantRules -> ScanModes]}

\* Empty, whitespace only, not SQL, and a SELECT that two rules report.
FaultCalls ==
    {<<Q_empty, Q_empty>>, <<Q_blank, Q_blank>>, <<Q_garbage, Q_garbage>>,
     <<Q_select_id, Q_select_id>>}

FaultInit == \E modes \in FaultProfiles : CoreInit(modes)
FaultValidate == \E call \in FaultCalls : ValidateSqlCall(call[1], call[2])
FaultNext == FaultValidate
SpecFaults == FaultInit /\ [][FaultNext]_vars

Throwers == {r \in ScanRules : ruleMode[r] = "throw"}
LastAst == astMemo[normalizeSQL(lastCall.sql)]
Missed == lastCall.called /\ ~lastCall.hit

\* C1: validateSql returns a list and never raises, for every input pair,
\* whatever a rule or the parser throws.
C1_NeverRaises ==
    lastCall.called =>
        /\ ~lastCall.raised
        /\ DOMAIN lastCall.results = 1..Len(lastCall.results)

\* A call on whitespace where the parser failed and a rule threw.
C1_Witness ==
    /\ Missed
    /\ lastCall.sql = Q_blank
    /\ LastAst.kind = "error"
    /\ Throwers # {}

\* The same rules, the throwing ones replaced by rules that find nothing.
ThrowersSilenced == [r \in ScanRules |-> IF r \in Throwers THEN "silent" ELSE ruleMode[r]]

\* C2: on a cache miss every rule after a throwing one is still invoked and
\* the result is what the other rules alone produce: a throwing rule adds
\* nothing and removes nothing.
C2_ThrowingRuleAddsAndRemovesNothing ==
    Missed =>
        /\ lastCall.invoked = allValidationRules
        /\ lastCall.results =
               validateSql(lastCall.sql, lastCall.originalQuery, <<>>, LastAst,
                           ThrowersSilenced).results

\* A miss where the first rule threw and rules before and after the second
\* thrower reported.
C2_Witness ==
    /\ Missed
    /\ ruleMode["missing-comma"] = "throw"
    /\ ruleMode["invalid-order-by"] = "throw"
    /\ ruleMode["credential-mutual-exclusion"] = "finding"
    /\ Len(lastCall.results) >= 2

\* What each rule of the list returned in the last call, by list position.
LastOutcomes ==
    [i \in 1..Len(allValidationRules) |->
        RuleValidate(allValidationRules[i], normalizeSQL(lastCall.sql),
                     lastCall.originalQuery, LastAst, ruleMode)]
Reporting == {i \in 1..Len(allValidationRules) :
                 ~IsThrown(LastOutcomes[i]) /\ ~LastOutcomes[i].isValid}
\* The k-th smallest element of a set of numbers.
Kth(set, k) == CHOOSE i \in set : Cardinality({j \in set : j <= i}) = k

\* C5: on a cache miss every rule of the list runs exactly once in list order
\* and the result holds exactly one entry per rule that returned
\* isValid=false, in that order.
C5_EveryRuleOnceInOrder ==
    Missed =>
        /\ lastCall.invoked = allValidationRules
        /\ Len(lastCall.results) = Cardinality(Reporting)
        /\ \A k \in 1..Len(lastCall.results) :
               lastCall.results[k] =
                   Finding(allValidationRules[Kth(Reporting, k)],
                           LastOutcomes[Kth(Reporting, k)])

\* A miss where four rules reported, one of them without a message.
C5_Witness ==
    /\ Missed
    /\ Len(lastCall.results) >= 4
    /\ \E k \in 1..Len(lastCall.results) :
           lastCall.results[k].errorMessage = DefaultMessage("invalid-order-by")

(***************************************************************************)
(* utils/fileUtils.ts                                                      *)
(***************************************************************************)
S_baton_sql == <<"b","a","t","o","n","-","s","q","l","-">>
S_yaml == <<".","y","a","m","l">>
S_yml == <<".","y","m","l">>

\* pathOrUri.split('/').pop() || ''
FileName(pathOrUri) ==
    LET slashes == {i \in 1..Len(pathOrUri) : pathOrUri[i] = "/"}
    IN  IF slashes = {} THEN pathOrUri
        ELSE SuffixFrom(pathOrUri, (CHOOSE i \in slashes : \A j \in slashes : j <= i) + 1)

EndsWith(s, p) == Len(p) <= Len(s) /\ MatchesAt(s, p, Len(s) - Len(p) + 1)

\* /^baton-sql-.*\.(yaml|yml)$/i.test(fileName)
isBatonSQLFilePath(pathOrUri) ==
    LET fileName == ToLowerCase(FileName(pathOrUri))
    IN  /\ StartsWith(fileName, S_baton_sql)
        /\ \A i \in 1..Len(fileName) : fileName[i] # "\n"
        /\ \E ext \in {S_yaml, S_yml} :
               EndsWith(fileName, ext) /\ Len(fileName) >= Len(S_baton_sql) + Len(ext)

\* fileUtils.hashString: the sum of stringUtils.hashString, printed in base 36.
\* Both printings tell any two sums apart; the digest is kept as the sum.
fileHashString(str) == hashString(str)

(***************************************************************************)
(* utils/yamlUtils.ts.  A parsed YAML object is the list of its string     *)
(* fields, <<key, value>>, in the order traverseObject meets them; a       *)
(* document that yaml.load rejects, or for which it returns nothing,       *)
(* parses to None.                                                         *)
(***************************************************************************)
sqlFieldNames == {<<"q","u","e","r","y">>, <<"s","q","l">>, <<"s","t","a","t","e","m","e","n","t">>}
S_SELECT == <<"S","E","L","E","C","T">>
S_INSERT == <<"I","N","S","E","R","T">>
S_UPDATE == <<"U","P","D","A","T","E">>
S_DELETE == <<"D","E","L","E","T","E">>

isSQLField(fieldName, content) ==
    \/ ToLowerCase(fieldName) \in sqlFieldNames
    \/ \E word \in {S_SELECT, S_INSERT, S_UPDATE, S_DELETE} : Includes(content, word)

findQueryByDirectMatch(yamlContent, query) ==
    LET index == IndexOf(yamlContent, query)
    IN  IF index # -1
        THEN Some([query |-> query, startPosition |-> index,
                   endPosition |-> index + Len(query)])
        ELSE None

\* Method 1 decides for every value that stands verbatim in the text, as the
\* values of the documents below do; the three fallback searches are not
\* consulted for them.
findSQLQueryPosition(yamlContent, query) == findQueryByDirectMatch(yamlContent, query)

RECURSIVE QueriesFrom(_, _, _)
QueriesFrom(yamlContent, fields, i) ==
    IF i > Len(fields) THEN <<>>
    ELSE (IF isSQLField(fields[i][1], fields[i][2])
          THEN findSQLQueryPosition(yamlContent, fields[i][2])
          ELSE <<>>) \o QueriesFrom(yamlContent, fields, i + 1)

findSQLQueries(yamlContent, yamlObject) == QueriesFrom(yamlContent, yamlObject, 1)

(***************************************************************************)
(* TextDocument.positionAt, and the two ways a finding becomes a           *)
(* diagnostic.  A diagnostic also remembers, as origin, the query and the  *)
(* finding it was made from.                                               *)
(***************************************************************************)

positionAt(text, offset) ==
    LET o == Max2(0, Min2(offset, Len(text)))
        breaks == {i \in 1..o : text[i] = "\n"}
        lineStart == IF breaks = {} THEN 0 ELSE CHOOSE i \in breaks : \A j \in breaks : j <= i
    IN  [line |-> Cardinality(breaks), character |-> o - lineStart]

MessageOf(result) ==
    IF result.errorMessage = None
    THEN [text |-> "SQL validation error", arg |-> <<>>]
    ELSE result.errorMessage[1]

Origin(content, queryInfo, result) ==
    [content |-> content, query |-> queryInfo.query,
     startPosition |-> queryInfo.startPosition, lineNumber |-> result.lineNumber]

\* offset += lines[i].length + 1, for i < lineNumber && i < lines.length
RECURSIVE LineOffset(_, _)
LineOffset(lines, n) ==
    IF n <= 0 THEN 0
    ELSE IF n > Len(lines) THEN LineOffset(lines, Len(lines))
    ELSE Len(lines[n]) + 1 + LineOffset(lines, n - 1)

\* server.ts: the body of the loop over validationResults.
ServerDiagnostic(content, queryInfo, result) ==
    LET lines == SplitLines(content)
        range ==
            IF result.lineNumber # None
            THEN LET n == result.lineNumber[1]
                     offset == LineOffset(lines, n)
                     length == IF n + 1 \in 1..Len(lines) THEN Len(lines[n + 1]) ELSE 0
                 IN  [start |-> positionAt(content, offset),
                      end |-> positionAt(content, offset + length)]
            ELSE IF result.position # None
            THEN [start |-> positionAt(content, queryInfo.startPosition + result.position[1]),
                  end |-> positionAt(content,
                                     queryInfo.startPosition + result.position[1] + 1)]
            ELSE [start |-> positionAt(content, queryInfo.startPosition),
                  end |-> positionAt(content, queryInfo.endPosition)]
    IN  [message |-> MessageOf(result), range |-> range,
         origin |-> Origin(content, queryInfo, result)]

\* vscodeUtils.ts: createDiagnosticFromResult, always given a queryInfo.
createDiagnosticFromResult(content, result, queryInfo) ==
    LET lines == SplitLines(content)
        range ==
            IF result.lineNumber # None
            THEN LET lineNumber == Max2(0, Min2(result.lineNumber[1], Len(lines) - 1))
                 IN  [start |-> [line |-> lineNumber, character |-> 0],
                      end |-> [line |-> lineNumber,
                               character |-> Len(lines[lineNumber + 1])]]
            ELSE IF result.position # None
            THEN [start |-> positionAt(content, queryInfo.startPosition + result.position[1]),
                  end |-> positionAt(content,
                                     queryInfo.startPosition + result.position[1] + 10)]
            ELSE [start |-> positionAt(content, queryInfo.startPosition),
                  end |-> positionAt(content, queryInfo.endPosition)]
    IN  [message |-> MessageOf(result), range |-> range,
         origin |-> Origin(content, queryInfo, result)]

\* createDiagnostics(document, validationResults, queryInfo)
createDiagnostics(content, validationResults, queryInfo) ==
    [k \in 1..Len(validationResults) |->
        createDiagnosticFromResult(content, validationResults[k], queryInfo)]

ServerDiagnostics(content, validationResults, queryInfo) ==
    [k \in 1..Len(validationResults) |->
        ServerDiagnostic(content, queryInfo, validationResults[k])]

DiagnosticKey(d) == <<d.message, d.range.start.line, d.range.start.character>>

\* allDiagnostics.filter((diagnostic, index, self) => index === self.findIndex(same key))
uniqueDiagnostics(allDiagnostics) ==
    LET first == {i \in 1..Len(allDiagnostics) :
                     \A j \in 1..(i - 1) :
                         DiagnosticKey(allDiagnostics[j]) # DiagnosticKey(allDiagnostics[i])}
    IN  [k \in 1..Cardinality(first) |-> allDiagnostics[Kth(first, k)]]

(***************************************************************************)
(* The documents the hosts are given: uri, text, and what yaml.load makes  *)
(* of the text.                                                            *)
(***************************************************************************)
U_baton == <<"f","i","l","e",":","/","/","/","w","/","b","a","t","o","n","-","s","q","l","-","a",".","y","a","m","l">>
U_notes == <<"f","i","l","e",":","/","/","/","w","/","n","o","t","e","s",".","y","a","m","l">>
Q_select_1 == <<"s","e","l","e","c","t"," ","1">>

\* The same query under two keys.
D_twice ==
    [uri |-> U_baton, text |-> <<"s","q","l",":"," ","s","e","l","e","c","t"," ","i","d","\n","q","u","e","r","y",":"," ","s","e","l","e","c","t"," ","i","d">>,
     yaml |-> Some(<< <<<<"s","q","l">>, Q_select_id>>, <<<<"q","u","e","r","y">>, Q_select_id>> >>)]
\* A misspelt property on the line before the query.
D_typo ==
    [uri |-> U_baton, text |-> <<"s","t","a","t","i","c","_","e","n","t","i","t","l","e","m","e","n","t",":"," ","x","\n","s","q","l",":"," ","s","e","l","e","c","t"," ","1">>,
     yaml |-> Some(<< <<<<"s","t","a","t","i","c","_","e","n","t","i","t","l","e","m","e","n","t">>, <<"x">>>>, <<<<"s","q","l">>, Q_select_1>> >>)]
D_clean ==
    [uri |-> U_baton, text |-> <<"s","q","l",":"," ","s","e","l","e","c","t"," ","1">>,
     yaml |-> Some(<< <<<<"s","q","l">>, Q_select_1>> >>)]
D_noQuery ==
    [uri |-> U_baton, text |-> <<"n","a","m","e",":"," ","x">>, yaml |-> Some(<< <<<<"n","a","m","e">>, <<"x">>>> >>)]
D_notYaml == [uri |-> U_baton, text |-> <<"s","q","l",":"," ","[">>, yaml |-> None]
D_notes ==
    [uri |-> U_notes, text |-> <<"s","q","l",":"," ","s","e","l","e","c","t"," ","i","d">>,
     yaml |-> Some(<< <<<<"s","q","l">>, Q_select_id>> >>)]

Documents == {D_twice, D_typo, D_clean, D_noQuery, D_notYaml, D_notes}

\* yamlUtils.parseYaml: the object, or null when yaml.load throws.
parseYaml(document) == document.yaml

(***************************************************************************)
(* The loop over the queries of one document, shared by both hosts:        *)
(* validateSql(queryInfo.query, content) for each, on the shared cache.    *)
(***************************************************************************)
ValidatedQuery(acc, queryInfo, content, out) ==
    [cache |-> out.cache,
     origin |-> IF out.hit \/ out.raised THEN acc.origin
                ELSE (CacheKey(queryInfo.query, content) :> <<queryInfo.query, content>>)
                         @@ acc.origin,
     lists |-> Append(acc.lists, out.results),
     calls |-> Append(acc.calls, <<queryInfo.query, content>>),
     raised |-> out.raised]

RECURSIVE ValidateEach(_, _, _, _, _, _)
ValidateEach(queries, i, content, acc, parse, modes) ==
    IF i > Len(queries) \/ acc.raised THEN acc
    ELSE Once(LAMBDA out :
                  Once(LAMBDA next : ValidateEach(queries, i + 1, content, next, parse, modes),
                       ValidatedQuery(acc, queries[i], content, out)),
              validateSql(queries[i].query, content, acc.cache,
                          parse[normalizeSQL(queries[i].query)], modes))

\* The texts the parser is given for these queries, and the answers open to it.
ParsedTexts(queries) == {normalizeSQL(queries[k].query) : k \in 1..Len(queries)}
ParserAnswers(texts) ==
    {parse \in [texts -> AstOutcomes] :
        \A text \in texts \cap DOMAIN astMemo : parse[text] = astMemo[text]}

RECURSIVE Flatten(_, _)
Flatten(seqs, i) == IF i > Len(seqs) THEN <<>> ELSE seqs[i] \o Flatten(seqs, i + 1)

\* The loop run once over the queries, for each way the parser can answer.
RunsOf(content, queries) ==
    {[parse |-> parse,
      run |-> ValidateEach(queries, 1, content,
                           [cache |-> validationCache, origin |-> cacheOrigin,
                            lists |-> <<>>, calls |-> <<>>, raised |-> FALSE],
                           parse, ruleMode)] :
        parse \in ParserAnswers(ParsedTexts(queries))}

\* What a pass of the loop leaves in the validator.
ValidatorAfter(pass) ==
    /\ validationCache' = pass.run.cache
    /\ cacheOrigin' = pass.run.origin
    /\ astMemo' = pass.parse @@ astMemo

ValidatorUntouched == UNCHANGED <<validationCache, cacheOrigin, astMemo>>

\* A validation pass of the document uri: whether it stopped at the digest
\* test, whether parseYaml returned null, its validateSql calls as
\* <<sql, originalQuery>>, and the list it published, if it published one.
Pass(uri, skipped, yamlFailed, calls, sent) ==
    [ran |-> TRUE, uri |-> uri, skipped |-> skipped, yamlFailed |-> yamlFailed,
     calls |-> calls, sent |-> sent]

\* The published lists with the one of uri dropped, or replaced.
Deleted(uri) == [u \in DOMAIN published \ {uri} |-> published[u]]
Sent(uri, diagnostics) == (uri :> diagnostics) @@ published

(***************************************************************************)
(* extension.ts: validateSQLInDocument(document)                           *)
(***************************************************************************)
ExtensionDiagnostics(content, queries, lists) ==
    Flatten([k \in 1..Len(lists) |-> createDiagnostics(content, lists[k], queries[k])], 1)

validateSQLInDocument(document) ==
    LET uri == document.uri
        currentDigest == fileHashString(document.text)
        yamlObject == parseYaml(document)
    IN  /\ host = "extension"
        /\ UNCHANGED <<norm, ruleRun, ruleMode, lastCall, host, storeVars>>
        /\ IF uri \in DOMAIN fileDigests /\ fileDigests[uri] = currentDigest
           THEN /\ UNCHANGED <<fileDigests, published>> /\ ValidatorUntouched
                /\ lastPass' = Pass(uri, TRUE, FALSE, <<>>, None)
           ELSE /\ fileDigests' = (uri :> currentDigest) @@ fileDigests
                /\ IF yamlObject = None
                   THEN /\ published' = Deleted(uri) /\ ValidatorUntouched
                        /\ lastPass' = Pass(uri, FALSE, TRUE, <<>>, None)
                   ELSE \E queries \in {findSQLQueries(document.text, yamlObject[1])} :
                          IF queries = <<>>
                          THEN /\ published' = Deleted(uri) /\ ValidatorUntouched
                               /\ lastPass' = Pass(uri, FALSE, FALSE, <<>>, None)
                          ELSE \E pass \in RunsOf(document.text, queries) :
                                 \E allDiagnostics \in
                                        {ExtensionDiagnostics(document.text, queries,
                                                              pass.run.lists)} :
                                    /\ ValidatorAfter(pass)
                                    /\ lastPass' =
                                           Pass(uri, FALSE, FALSE, pass.run.calls,
                                                IF pass.run.raised \/ allDiagnostics = <<>>
                                                THEN None ELSE Some(allDiagnostics))
                                    /\ published' =
                                           IF pass.run.raised \/ allDiagnostics = <<>>
                                           THEN Deleted(uri)
                                           ELSE Sent(uri, allDiagnostics)

(***************************************************************************)
(* server/features/codeActionProvider.ts: the store of suggested fixes.    *)
(* A key is `${uri}:${message}:${line}:${character}`; it is kept as its    *)
(* four parts.                                                             *)
(***************************************************************************)
FixKey(uri, diagnostic) ==
    [uri |-> uri, message |-> diagnostic.message,
     line |-> diagnostic.range.start.line,
     character |-> diagnostic.range.start.character]

\* key.startsWith(uri).  The key's text starts with its own uri and a colon;
\* no uri of the documents below is longer than that and still a prefix of
\* the key's text.
KeyStartsWith(key, uri) == StartsWith(key.uri \o <<":">>, uri)

storeDiagnosticFix(fixes, uri, diagnostic, fix) == (FixKey(uri, diagnostic) :> fix) @@ fixes

clearDiagnosticFixes(fixes, uri) ==
    [key \in {k \in DOMAIN fixes : ~KeyStartsWith(k, uri)} |-> fixes[key]]

\* server.ts: the fixes stored by the loop over the results of one query,
\* and by the loop over the queries (lists[q] are the results of queries[q]).
RECURSIVE StoreFixesOfResults(_, _, _, _, _, _)
StoreFixesOfResults(fixes, uri, content, queryInfo, validationResults, k) ==
    IF k > Len(validationResults) THEN fixes
    ELSE StoreFixesOfResults(
             IF "suggestedFix" \in DOMAIN validationResults[k]
             THEN storeDiagnosticFix(fixes, uri,
                                     ServerDiagnostic(content, queryInfo, validationResults[k]),
                                     validationResults[k].suggestedFix)
             ELSE fixes,
             uri, content, queryInfo, validationResults, k + 1)

RECURSIVE StoreFixesOfQueries(_, _, _, _, _, _)
StoreFixesOfQueries(fixes, uri, content, queries, lists, q) ==
    IF q > Len(lists) THEN fixes
    ELSE StoreFixesOfQueries(
             StoreFixesOfResults(fixes, uri, content, queries[q], lists[q], 1),
             uri, content, queries, lists, q + 1)

\* The lists of results the loop received: when a validateSql call raised,
\* the last one never came back.
ListsReceived(run) ==
    IF run.raised THEN SubSeq(run.lists, 1, Len(run.lists) - 1) ELSE run.lists

\* The call clearDiagnosticFixes(uri) on the store, as the history keeps it.
Cleared(uri) ==
    [called |-> TRUE, uri |-> uri, before |-> diagnosticFixes,
     after |-> clearDiagnosticFixes(diagnosticFixes, uri)]

(***************************************************************************)
(* SymbolIndex (server.ts 289-421).  A text document may carry, next to    *)
(* the fields yaml.load gives it, the names under its resource_types key.  *)
(***************************************************************************)
ResourceTypesOf(document) ==
    IF "resourceTypes" \in DOMAIN document THEN document.resourceTypes ELSE <<>>

SymbolsKept(list, uri) == SelectSeq(list, LAMBDA symbol : symbol.documentUri # uri)
clearDocument(index, uri) ==
    [name \in {n \in DOMAIN index : SymbolsKept(index[n], uri) # <<>>} |->
        SymbolsKept(index[name], uri)]

addSymbol(index, name, symbol) ==
    (name :> Append(IF name \in DOMAIN index THEN index[name] ELSE <<>>, symbol)) @@ index

SymbolInfo(name, type, line, character, uri) ==
    [name |-> name, type |-> type,
     range |-> [start |-> [line |-> line, character |-> character],
                end |-> [line |-> line, character |-> character + Len(name)]],
     documentUri |-> uri]

\* The zero-based lines whose trimmed text starts with `${name}:`.
DefiningLines(lines, name) ==
    {i \in 0..(Len(lines) - 1) : StartsWith(Trim(lines[i + 1]), name \o <<":">>)}
ResourceTypeAt(index, document, lines, name, i) ==
    addSymbol(index, name,
              SymbolInfo(name, "resource_type", i, IndexOf(lines[i + 1], name), document.uri))
RECURSIVE extractResourceTypes(_, _, _, _, _)
extractResourceTypes(index, document, lines, names, k) ==
    IF k > Len(names) THEN index
    ELSE extractResourceTypes(
             IF DefiningLines(lines, names[k]) = {} THEN index
             ELSE ResourceTypeAt(index, document, lines, names[k],
                                 CHOOSE i \in DefiningLines(lines, names[k]) :
                                     \A j \in DefiningLines(lines, names[k]) : i <= j),
             document, lines, names, k + 1)

\* /FROM\s+([a-zA-Z_][a-zA-Z0-9_]*)/gi and the same with JOIN: word, white
\* space and the start of a name at the one-based index i of line.
tablePatterns == <<S_from, S_join>>
TableMatchAt(line, word, i) ==
    /\ MatchesAt(ToLowerCase(line), word, i)
    /\ SkipSpaces(line, i + Len(word)) > i + Len(word)
    /\ SkipSpaces(line, i + Len(word)) <= Len(line)
    /\ IsIdentStart(line[SkipSpaces(line, i + Len(word))])
TableNameStart(line, word, i) == SkipSpaces(line, i + Len(word))
TableNameEnd(line, word, i) == SkipWord(line, TableNameStart(line, word, i))

\* The symbol of the match at i: the name is match[1], its column is
\* match.index + match[0].indexOf(tableName).
TableSymbol(document, line, word, i, currentOffset, tableName, matched) ==
    Once(LAMBDA position :
             SymbolInfo(tableName, "table", position.line, position.character, document.uri),
         positionAt(document.text, currentOffset + (i - 1) + IndexOf(matched, tableName)))

\* pattern.exec(line) until null, from the one-based index i on.
RECURSIVE TableMatchesFrom(_, _, _, _, _, _)
TableMatchesFrom(index, document, line, word, currentOffset, i) ==
    IF i > Len(line) THEN index
    ELSE IF TableMatchAt(line, word, i)
    THEN TableMatchesFrom(
             addSymbol(index,
                       SubSeq(line, TableNameStart(line, word, i), TableNameEnd(line, word, i) - 1),
                       TableSymbol(document, line, word, i, currentOffset,
                                   SubSeq(line, TableNameStart(line, word, i),
                                          TableNameEnd(line, word, i) - 1),
                                   SubSeq(line, i, TableNameEnd(line, word, i) - 1))),
             document, line, word, currentOffset, TableNameEnd(line, word, i))
    ELSE TableMatchesFrom(index, document, line, word, currentOffset, i + 1)

RECURSIVE TableLinesFrom(_, _, _, _, _)
TableLinesFrom(index, document, queryLines, lineIdx, currentOffset) ==
    IF lineIdx > Len(queryLines) THEN index
    ELSE TableLinesFrom(
             TableMatchesFrom(
                 TableMatchesFrom(index, document, queryLines[lineIdx], tablePatterns[1],
                                  currentOffset, 1),
                 document, queryLines[lineIdx], tablePatterns[2], currentOffset, 1),
             document, queryLines, lineIdx + 1,
             currentOffset + Len(queryLines[lineIdx]) + 1)

extractTablesFromQuery(index, document, query, queryStartPos) ==
    TableLinesFrom(index, document, SplitLines(query), 1, queryStartPos)

RECURSIVE TablesOfQueries(_, _, _, _)
TablesOfQueries(index, document, sqlQueries, q) ==
    IF q > Len(sqlQueries) THEN index
    ELSE TablesOfQueries(
             extractTablesFromQuery(index, document, sqlQueries[q].query,
                                    sqlQueries[q].startPosition),
             document, sqlQueries, q + 1)

IndexedFrom(cleared, document, yamlObject) ==
    TablesOfQueries(
        extractResourceTypes(cleared, document, SplitLines(document.text),
                             ResourceTypesOf(document), 1),
        document, findSQLQueries(document.text, yamlObject), 1)

indexDocument(index, document) ==
    IF parseYaml(document) = None THEN clearDocument(index, document.uri)
    ELSE IndexedFrom(clearDocument(index, document.uri), document, parseYaml(document)[1])

(***************************************************************************)
(* server/server.ts: validateTextDocument(textDocument)                    *)
(***************************************************************************)
AllServerDiagnostics(content, queries, lists) ==
    Flatten([k \in 1..Len(lists) |-> ServerDiagnostics(content, lists[k], queries[k])], 1)

validateTextDocument(textDocument) ==
    LET uri == textDocument.uri
        content == textDocument.text
        currentDigest == fileHashString(content)
        yamlObject == parseYaml(textDocument)
    IN  /\ host = "server"
        /\ UNCHANGED <<norm, ruleRun, ruleMode, lastCall, host>>
        /\ IF \/ ~isBatonSQLFilePath(uri)
              \/ uri \in DOMAIN fileDigests /\ fileDigests[uri] = currentDigest
           THEN /\ UNCHANGED <<fileDigests, published, storeVars>> /\ ValidatorUntouched
                /\ lastPass' = Pass(uri, TRUE, FALSE, <<>>, None)
           ELSE /\ fileDigests' = (uri :> currentDigest) @@ fileDigests
                /\ lastClear' = Cleared(uri)
                /\ IF yamlObject = None
                   THEN /\ UNCHANGED <<published, symbols>> /\ ValidatorUntouched
                        /\ diagnosticFixes' = clearDiagnosticFixes(diagnosticFixes, uri)
                        /\ lastPass' = Pass(uri, FALSE, TRUE, <<>>, None)
                   ELSE \E sqlQueries \in {findSQLQueries(content, yamlObject[1])} :
                          IF sqlQueries = <<>>
                          THEN /\ published' = Sent(uri, <<>>) /\ ValidatorUntouched
                               /\ diagnosticFixes' = clearDiagnosticFixes(diagnosticFixes, uri)
                               /\ UNCHANGED symbols
                               /\ lastPass' = Pass(uri, FALSE, FALSE, <<>>, Some(<<>>))
                          ELSE \E pass \in RunsOf(content, sqlQueries) :
                                 \E allDiagnostics \in
                                        {AllServerDiagnostics(content, sqlQueries,
                                                              pass.run.lists)} :
                                    /\ ValidatorAfter(pass)
                                    /\ diagnosticFixes' =
                                           StoreFixesOfQueries(
                                               clearDiagnosticFixes(diagnosticFixes, uri),
                                               uri, content, sqlQueries,
                                               ListsReceived(pass.run), 1)
                                    /\ symbols' =
                                           IF pass.run.raised THEN symbols
                                           ELSE indexDocument(symbols, textDocument)
                                    /\ lastPass' =
                                           Pass(uri, FALSE, FALSE, pass.run.calls,
                                                IF pass.run.raised THEN None
                                                ELSE Some(uniqueDiagnostics(allDiagnostics)))
                                    /\ published' =
                                           IF pass.run.raised THEN published
                                           ELSE Sent(uri, uniqueDiagnostics(allDiagnostics))

Hosts == {"extension", "server"}

DocInit ==
    /\ norm = NormIdle
    /\ ruleRun = [stage |-> "idle"]
    /\ validationCache = <<>>
    /\ cacheOrigin = <<>>
    /\ astMemo = <<>>
    /\ ruleMode = AllSilent
    /\ lastCall = NoCall
    /\ host \in Hosts
    /\ fileDigests = <<>>
    /\ published = <<>>
    /\ lastPass = [ran |-> FALSE]
    /\ editor = <<>>
    /\ timeout = <<>>
    /\ awaiting = {}
    /\ diagnosticFixes = <<>>
    /\ lastClear = [called |-> FALSE]
    /\ symbols = <<>>

\* vscodeUtils.isBatonSQLFile: the same test on the path of the uri.
isBatonSQLFile(uri) == isBatonSQLFilePath(uri)

\* extension.ts: shouldProcessDocument, for documents whose language is yaml.
shouldProcessDocument(document) == isBatonSQLFile(document.uri)

\* extension.ts: a document is opened or saved.
ExtensionValidates ==
    \E document \in Documents :
        /\ shouldProcessDocument(document) /\ validateSQLInDocument(document)
        /\ UNCHANGED editVars

\* server.ts: a document is opened or its content changes.
ServerValidates ==
    \E textDocument \in Documents :
        validateTextDocument(textDocument) /\ UNCHANGED editVars
DocNext == ExtensionValidates \/ ServerValidates
SpecDoc == DocInit /\ [][DocNext]_vars

PublishedLists == {published[uri] : uri \in DOMAIN published}

\* C9: in every published list each (message, start line, start character)
\* occurs at most once, also when the same query stands twice in the document.
C9_NoDuplicateDiagnostics ==
    \A list \in PublishedLists :
        \A i, j \in 1..Len(list) :
            DiagnosticKey(list[i]) = DiagnosticKey(list[j]) => i = j

\* The document line on which line n of the query starting at startPosition lies.
QueryLine(content, query, startPosition, n) ==
    positionAt(content, startPosition + LineOffset(SplitLines(query), n)).line

\* C10: a finding with lineNumber n, for a query whose span starts at
\* startPosition, is published on the document line that holds the n-th line
\* of the query, not on the n-th line of the document.
C10_RangeIsQueryLine ==
    \A list \in PublishedLists :
        \A k \in 1..Len(list) :
            LET from == list[k].origin
            IN  (from.lineNumber # None /\ from.lineNumber[1] < Len(SplitLines(from.query))) =>
                    list[k].range.start.line =
                        QueryLine(from.content, from.query, from.startPosition,
                                  from.lineNumber[1])


\* C11: in every validateSql call a host makes for a discovered query the
\* second argument is the very string passed as the first, never the text of
\* the whole document.
C11_OriginalQueryIsTheQuery ==
    lastPass.ran =>
        \A k \in 1..Len(lastPass.calls) : lastPass.calls[k][2] = lastPass.calls[k][1]

\* C14: a pass over a text that fails to parse as YAML calls validateSql for
\* no query and publishes a diagnostic for the document itself.
C14_YamlFailurePublishesParseDiagnostic ==
    (lastPass.ran /\ lastPass.yamlFailed) =>
        /\ lastPass.calls = <<>>
        /\ lastPass.sent # None
        /\ lastPass.sent[1] # <<>>


(***************************************************************************)
(* The hosts under the editor's events: documents are opened, changed,     *)
(* saved and closed, and the extension's debounce timer goes off.          *)
(***************************************************************************)
U_baton_b == <<"f","i","l","e",":","/","/","/","w","/","b","a","t","o","n","-","s","q","l","-","b",".","y","a","m","l">>
D_other == [uri |-> U_baton_b, text |-> D_noQuery.text, yaml |-> D_noQuery.yaml]
D_otherBroken == [uri |-> U_baton_b, text |-> D_notYaml.text, yaml |-> D_notYaml.yaml]
EditedDocuments == {D_clean, D_noQuery, D_other, D_otherBroken, D_notes}

IsOpen(uri) == uri \in DOMAIN editor /\ editor[uri].open
Shown(document) == (document.uri :> [document |-> document, open |-> TRUE]) @@ editor
Without(map, uri) == [u \in DOMAIN map \ {uri} |-> map[u]]

\* The handler does nothing to the host's state.
HandlerIgnores ==
    UNCHANGED <<norm, ruleRun, coreVars, host, fileDigests, published, lastPass, storeVars>>

\* vscodeUtils.debounce: the function returned by debounce(func, wait), called
\* with a document: clearTimeout(timeout), then one new timer for this call.
debounce(document) == timeout' = Some(document.uri)

\* extension.ts: the onDidChangeTextDocument handler
onDidChangeTextDocument(document) ==
    /\ HandlerIgnores
    /\ IF shouldProcessDocument(document)
       THEN debounce(document) /\ awaiting' = awaiting \cup {document.uri}
       ELSE UNCHANGED <<timeout, awaiting>>

\* extension.ts: the onDidOpenTextDocument and onDidSaveTextDocument handlers
onDidOpenTextDocument(document) ==
    /\ UNCHANGED timeout
    /\ IF shouldProcessDocument(document)
       THEN validateSQLInDocument(document) /\ awaiting' = awaiting \ {document.uri}
       ELSE HandlerIgnores /\ UNCHANGED awaiting

onDidSaveTextDocument(document) == onDidOpenTextDocument(document)

\* extension.ts: the onDidCloseTextDocument handler
onDidCloseTextDocument(document) ==
    /\ UNCHANGED <<norm, ruleRun, coreVars, host, lastPass, timeout, storeVars>>
    /\ awaiting' = awaiting \ {document.uri}
    /\ IF isBatonSQLFile(document.uri)
       THEN /\ published' = Deleted(document.uri)
            /\ fileDigests' = Without(fileDigests, document.uri)
       ELSE UNCHANGED <<fileDigests, published>>

\* server.ts: documents.onDidChangeContent and documents.onDidOpen
onDidChangeContent(document) ==
    validateTextDocument(document) /\ UNCHANGED <<timeout, awaiting>>

\* server.ts: documents.onDidClose
onDidClose(document) ==
    /\ UNCHANGED <<norm, ruleRun, coreVars, host, lastPass, timeout, awaiting>>
    /\ UNCHANGED <<diagnosticFixes, lastClear>>
    /\ fileDigests' = Without(fileDigests, document.uri)
    /\ symbols' = clearDocument(symbols, document.uri)
    /\ published' = Sent(document.uri, <<>>)

\* The editor opens a document.  A document is not opened again while the
\* timer armed with its previous instance is pending.
EditorOpens ==
    \E document \in EditedDocuments :
        /\ ~IsOpen(document.uri)
        /\ timeout # Some(document.uri)
        /\ editor' = Shown(document)
        /\ IF host = "extension" THEN onDidOpenTextDocument(document)
           ELSE onDidChangeContent(document)

\* The text of an open document changes.
EditorChanges ==
    \E document \in EditedDocuments :
        /\ IsOpen(document.uri)
        /\ editor[document.uri].document # document
        /\ editor' = Shown(document)
        /\ IF host = "extension" THEN onDidChangeTextDocument(document)
           ELSE onDidChangeContent(document)

\* An open document is saved; the server has no handler for it.
EditorSaves ==
    \E uri \in DOMAIN editor :
        /\ IsOpen(uri)
        /\ host = "extension"
        /\ UNCHANGED editor
        /\ onDidSaveTextDocument(editor[uri].document)

\* An open document is closed.
EditorCloses ==
    \E uri \in DOMAIN editor :
        /\ IsOpen(uri)
        /\ editor' = [editor EXCEPT ![uri].open = FALSE]
        /\ IF host = "extension" THEN onDidCloseTextDocument(editor[uri].document)
           ELSE onDidClose(editor[uri].document)

\* The debounce timer goes off: func.apply(null, args) on the document the
\* last call was made with.
DebounceFires ==
    /\ timeout # None
    /\ timeout' = None
    /\ awaiting' = awaiting \ {timeout[1]}
    /\ UNCHANGED editor
    /\ validateSQLInDocument(editor[timeout[1]].document)

EditNext == EditorOpens \/ EditorChanges \/ EditorSaves \/ EditorCloses \/ DebounceFires
SpecEdit == DocInit /\ [][EditNext]_vars

\* C12: every document that was edited has a validation pass coming: as long
\* as it was not validated since its last edit, the timer that will validate
\* it is armed, whatever edits other documents received meanwhile.
C12_EveryEditedDocumentValidated ==
    \A uri \in awaiting : timeout = Some(uri)

\* C13: once the close handler ran for a document, and until it is opened
\* again, the digest cache holds no entry for it and no diagnostics are
\* published for it.
C13_ClosedDocumentLeavesNothing ==
    \A uri \in DOMAIN editor :
        ~editor[uri].open =>
            /\ uri \notin DOMAIN fileDigests
            /\ uri \in DOMAIN published => published[uri] = <<>>


(***************************************************************************)
(* The language server on its own, with the missing-comma rule at work:    *)
(* documents change and close.  Two of the documents have uris of which    *)
(* one starts with the other; `tables` and `resourceTypes` say which       *)
(* symbols the text of a document defines.                                 *)
(***************************************************************************)
U_baton_yml == U_baton \o <<".","y","m","l">>
Q_joined == <<"s","e","l","e","c","t"," ","1"," ","f","r","o","m"," ","t"," ","j","o","i","n"," ","u">>
T_fix == <<"s","q","l",":"," ","s","e","l","e","c","t"," ","1"," ","f","r","o","m"," ","t"," ","j","o","i","n"," ","u","\n","n",":","\n"," ","s","e","l","e","c","t","\n"," ","a","\n"," ","b","\n"," ","f","r","o","m"," ","t">>
Y_fix == Some(<< <<<<"s","q","l">>, Q_joined>>, <<<<"n">>, <<"s","e","l","e","c","t"," ","a"," ","b"," ","f","r","o","m"," ","t">>>> >>)
S_types ==
    [uri |-> U_baton,
     text |-> <<"r","e","s","o","u","r","c","e","_","t","y","p","e","s",":","\n"," "," ","u","s","e","r",":","\n"," "," "," "," ","n",":"," ","x","\n","s","q","l",":"," ","s","e","l","e","c","t"," ","1"," ","f","r","o","m"," ","t"," ","j","o","i","n"," ","u">>,
     yaml |-> Some(<< <<<<"n">>, <<"x">>>>, <<<<"s","q","l">>, Q_joined>> >>),
     resourceTypes |-> <<<<"u","s","e","r">>>>,
     tables |-> {<<"t">>, <<"u">>}]
S_fix == [uri |-> U_baton, text |-> T_fix, yaml |-> Y_fix, resourceTypes |-> <<>>,
          tables |-> {<<"t">>, <<"u">>}]
S_fixLonger == [S_fix EXCEPT !.uri = U_baton_yml]
S_broken == [uri |-> U_baton, text |-> <<"s","q","l",":"," ","[">>, yaml |-> None, resourceTypes |-> <<>>,
             tables |-> {}]
S_plain ==
    [uri |-> U_baton, text |-> <<"n","a","m","e",":"," ","x">>, yaml |-> Some(<< <<<<"n","a","m","e">>, <<"x">>>> >>),
     resourceTypes |-> <<>>, tables |-> {}]
ServerDocuments == {S_types, S_fix, S_fixLonger, S_broken, S_plain}

ServerInit ==
    /\ norm = NormIdle
    /\ ruleRun = [stage |-> "idle"]
    /\ validationCache = <<>>
    /\ cacheOrigin = <<>>
    /\ astMemo = <<>>
    /\ ruleMode = [AllSilent EXCEPT !["missing-comma"] = "coded"]
    /\ lastCall = NoCall
    /\ host = "server"
    /\ fileDigests = <<>>
    /\ published = <<>>
    /\ lastPass = [ran |-> FALSE]
    /\ editor = <<>>
    /\ timeout = <<>>
    /\ awaiting = {}
    /\ diagnosticFixes = <<>>
    /\ lastClear = [called |-> FALSE]
    /\ symbols = <<>>

ServerDocumentChanges ==
    \E document \in ServerDocuments : onDidChangeContent(document) /\ UNCHANGED editor
ServerDocumentCloses ==
    \E uri \in {document.uri : document \in ServerDocuments} :
        onDidClose([uri |-> uri]) /\ UNCHANGED editor
ServerNext == ServerDocumentChanges \/ ServerDocumentCloses
SpecServer == ServerInit /\ [][ServerNext]_vars

(***************************************************************************)
(* The rules on their own: each is given one input drawn from a small set  *)
(* and returns its result.                                                 *)
(***************************************************************************)
\* The lines joined by '\n'.
RECURSIVE JoinLines(_)
JoinLines(lines) ==
    IF Len(lines) = 0 THEN <<>>
    ELSE IF Len(lines) = 1 THEN lines[1]
    ELSE lines[1] \o <<"\n">> \o JoinLines(Tail(lines))

\* A rule is about to be given sql and originalQuery; `given` describes how
\* the text was built, ast is what the parser answers for sql.
RuleInput(rule, given, text, ast, modes) ==
    [stage |-> "input", rule |-> rule, given |-> given, sql |-> text,
     originalQuery |-> text, ast |-> ast, modes |-> modes, result |-> <<>>]

\* The rule has returned result.
Returned(rule, result) ==
    /\ ruleRun.stage = "input"
    /\ ruleRun.rule = rule
    /\ ruleRun' = [ruleRun EXCEPT !.stage = "done", !.result = result]
    /\ UNCHANGED <<norm, coreVars, docVars>>

HasReturned(rule) == ruleRun.stage = "done" /\ ruleRun.rule = rule

\* Multi-line SELECTs with one column per line: SELECT, the columns, each with
\* or without a comma after it, then FROM users.
MaxColumns == 3
S_id == <<"i","d">>
S_name == <<"n","a","m","e">>
S_email == <<"e","m","a","i","l">>
S_order_id == <<"o","r","d","e","r","_","i","d">>
ColumnNames == {S_id, S_name, S_email, S_order_id}
ColumnLists ==
    UNION {[1..n -> [name : ColumnNames, comma : BOOLEAN]] : n \in 2..MaxColumns}
ColumnLine(column) == IF column.comma THEN Append(column.name, ",") ELSE column.name
S_FROM_users == <<"F","R","O","M"," ","u","s","e","r","s">>
SelectLines(columns) ==
    <<S_SELECT>> \o [k \in 1..Len(columns) |-> ColumnLine(columns[k])] \o <<S_FROM_users>>
\* The parser accepts the text as a select with a FROM clause (a column
\* followed by a bare name reads as a column and its alias), or it throws.
AstSelectFrom == [kind |-> "ast", select |-> TRUE, from |-> TRUE]
MissingCommaInputs ==
    {RuleInput("missing-comma", columns, JoinLines(SelectLines(columns)), ast, <<>>) :
        columns \in ColumnLists, ast \in {AstSelectFrom, ParseErrorOther}}

MissingCommaRuns ==
    Returned("missing-comma", missingCommaRule(ruleRun.sql, ruleRun.originalQuery))

\* SELECTs whose column list ends with a comma directly before FROM; given is
\* the zero-based index of the line that holds that comma.
Q_trailingExample == <<"S","E","L","E","C","T"," ","i","d",","," ","n","a","m","e",",","\n","F","R","O","M"," ","u","s","e","r","s">>
Q_trailingPerLine == <<"S","E","L","E","C","T","\n","i","d",",","\n","n","a","m","e",",","\n","F","R","O","M"," ","u","s","e","r","s">>
Q_trailingOneLine == <<"S","E","L","E","C","T"," ","i","d",","," ","n","a","m","e",","," ","F","R","O","M"," ","u","s","e","r","s">>
TrailingCommaQueries ==
    {[commaLine |-> 0, text |-> Q_trailingExample],
     [commaLine |-> 2, text |-> Q_trailingPerLine],
     [commaLine |-> 0, text |-> Q_trailingOneLine]}

TrailingCommaInputs ==
    {RuleInput("trailing-comma", q, q.text, None, <<>>) : q \in TrailingCommaQueries}
TrailingCommaRuns ==
    Returned("trailing-comma", trailingCommaRule(ruleRun.sql, ruleRun.originalQuery))

\* validateSql(text, text) on an empty cache.  The rules spelled out above run
\* their own code; each of the others stays silent or reports something of its
\* own; the parser answers any way it can.
CodedRules == {"missing-comma"}
DispatchModes ==
    {modes \in [ScanRules -> {"coded", "silent", "finding"}] :
        \A name \in ScanRules : modes[name] = "coded" <=> name \in CodedRules}
ValidateSqlInputs ==
    {RuleInput("validateSql", q, q.text, ast, modes) :
        q \in TrailingCommaQueries, ast \in AstOutcomes, modes \in DispatchModes}
ValidateSqlRuns ==
    Returned("validateSql",
             validateSql(ruleRun.sql, ruleRun.originalQuery, <<>>, ruleRun.ast,
                         ruleRun.modes).results)

\* SELECTs with no FROM clause.  bare tells whether the select list is a bare
\* column reference; the others select a literal, a system or date function,
\* an arithmetic expression or a session variable.
SelectsWithoutFrom ==
    {[bare |-> FALSE, text |-> <<"S","E","L","E","C","T"," ","C","U","R","R","E","N","T","_","T","I","M","E","S","T","A","M","P">>],
     [bare |-> FALSE, text |-> <<"S","E","L","E","C","T"," ","1","+","1">>],
     [bare |-> FALSE, text |-> <<"S","E","L","E","C","T"," ","'","x","'">>],
     [bare |-> FALSE, text |-> <<"S","E","L","E","C","T"," ","@","i","d">>],
     [bare |-> FALSE, text |-> <<"S","E","L","E","C","T"," ","N","O","W","(",")">>],
     [bare |-> TRUE, text |-> <<"S","E","L","E","C","T"," ","i","d">>],
     [bare |-> TRUE, text |-> <<"S","E","L","E","C","T"," ","n","a","m","e">>],
     [bare |-> TRUE, text |-> <<"S","E","L","E","C","T"," ","u","s","e","r","_","i","d">>],
     [bare |-> TRUE, text |-> <<"S","E","L","E","C","T"," ","u","s","e","r","n","a","m","e">>]}

\* For such a text the parser returns a select without from, or it throws.
AstOutcomesWithoutFrom == AstOutcomes \ {AstOther}

MissingFromInputs ==
    {RuleInput("missing-from", q, q.text, ast, <<>>) :
        q \in SelectsWithoutFrom, ast \in AstOutcomesWithoutFrom}
MissingFromRuns ==
    Returned("missing-from",
             missingFromRule(ruleRun.sql, ruleRun.originalQuery, ruleRun.ast))

\* SELECTs over a chain FROM users a1 JOIN orders a2 [JOIN items a3], each
\* binding on a line of its own or all on one line.  given holds the SELECT
\* line, the aliases in chain order and the layout.
RECURSIVE JoinSpaced(_)
JoinSpaced(pieces) ==
    IF Len(pieces) = 0 THEN <<>>
    ELSE IF Len(pieces) = 1 THEN pieces[1]
    ELSE pieces[1] \o <<" ">> \o JoinSpaced(Tail(pieces))

MaxBindings == 3
ChainTables == <<<<"u","s","e","r","s">>, <<"o","r","d","e","r","s">>, <<"i","t","e","m","s">>>>
ChainAliases == {<<"u">>, <<"o">>, <<"U">>}
SelectHeads == {<<"S","E","L","E","C","T"," ","*">>, <<"S","E","L","E","C","T"," ","u",".","i","d">>}
S_JOIN == <<"J","O","I","N">>
BindingText(k, alias) ==
    (IF k = 1 THEN S_FROM ELSE S_JOIN) \o <<" ">> \o ChainTables[((k - 1) % Len(ChainTables)) + 1] \o <<" ">> \o alias
ChainPieces(given) ==
    <<given.select>> \o [k \in 1..Len(given.aliases) |-> BindingText(k, given.aliases[k])]
ChainText(given) ==
    IF given.oneLine THEN JoinSpaced(ChainPieces(given)) ELSE JoinLines(ChainPieces(given))
Chains ==
    {[select |-> select, aliases |-> aliases, oneLine |-> oneLine] :
        select \in SelectHeads,
        aliases \in UNION {[1..n -> ChainAliases] : n \in 2..MaxBindings},
        oneLine \in BOOLEAN}

\* The tree of such a text: a select whose from lists the bindings in order.
ChainAst(given) ==
    [kind |-> "ast", select |-> TRUE, from |-> TRUE,
     tables |-> [k \in 1..Len(given.aliases) |->
                    [table |-> ChainTables[((k - 1) % Len(ChainTables)) + 1], as |-> given.aliases[k]]]]

DuplicateAliasesInputs ==
    {RuleInput("duplicate-aliases", given, ChainText(given), ast, <<>>) :
        given \in Chains, ast \in {ParseErrorOther}} \cup
    {RuleInput("duplicate-aliases", given, ChainText(given), ChainAst(given), <<>>) :
        given \in Chains}
DuplicateAliasesRuns ==
    Returned("duplicate-aliases",
             duplicateAliasesRule(ruleRun.sql, ruleRun.originalQuery, ruleRun.ast))

\* Texts of up to MaxLines lines.  Each line is given with what is wrong with
\* it: the typo of the table it contains, with its correction, and the close
\* match of its first word (at least 3 characters, no keyword, one edit away
\* from SELECT, FROM, WHERE, GROUP, ORDER, JOIN or HAVING), with that keyword.
MaxLines == 3
SpelledLines ==
    {[text |-> <<"S","E","L","E","C","T"," ","i","d">>,
      dictionary |-> None,
      closeMatch |-> None],
     [text |-> <<"s","e","l","c","t"," ","*"," ","f","r","o","m"," ","t">>,
      dictionary |-> Some(<<<<"S","E","L","C","T">>, <<"S","E","L","E","C","T">>>>),
      closeMatch |-> Some(<<<<"S","E","L","C","T">>, <<"S","E","L","E","C","T">>>>)],
     [text |-> <<"F","O","R","M"," ","u","s","e","r","s">>,
      dictionary |-> Some(<<<<"F","O","R","M">>, <<"F","R","O","M">>>>),
      closeMatch |-> None],
     [text |-> <<"S","E","L","E","C"," ","*"," ","F","O","R","M"," ","t">>,
      dictionary |-> Some(<<<<"F","O","R","M">>, <<"F","R","O","M">>>>),
      closeMatch |-> Some(<<<<"S","E","L","E","C">>, <<"S","E","L","E","C","T">>>>)],
     [text |-> <<"W","H","E","R","R"," ","i","d"," ","="," ","1">>,
      dictionary |-> None,
      closeMatch |-> Some(<<<<"W","H","E","R","R">>, <<"W","H","E","R","E">>>>)],
     [text |-> <<"u","s","e","r","s"," ","u">>,
      dictionary |-> None,
      closeMatch |-> None],
     [text |-> <<>>,
      dictionary |-> None,
      closeMatch |-> None]}
SpelledTexts == UNION {[1..n -> SpelledLines] : n \in 1..MaxLines}
SpelledText(given) == JoinLines([k \in 1..Len(given) |-> given[k].text])

KeywordSpellingInputs ==
    {RuleInput("keyword-spelling", given, SpelledText(given), None, <<>>) :
        given \in SpelledTexts}
KeywordSpellingRuns ==
    Returned("keyword-spelling", keywordSpellingRule(ruleRun.sql, ruleRun.originalQuery))

\* Texts with up to MaxParams parameters ?<name>, one after the other.  Each
\* name is given with the first check it fails, in the order empty name,
\* identifier grammar, SQL keyword, length below 2, near-miss of a common
\* parameter name ("" when it fails none): 1 fails the grammar and is too
\* short, user-id fails the grammar and is one edit from user_id.
MaxParams == 3
ParamNames ==
    {[name |-> <<"u","s","e","r","_","i","d">>, fails |-> ""],
     [name |-> <<"n","a","m","e">>, fails |-> ""],
     [name |-> <<" ">>, fails |-> BatonEmptyName],
     [name |-> <<"1">>, fails |-> BatonInvalidName],
     [name |-> <<"u","s","e","r","-","i","d">>, fails |-> BatonInvalidName],
     [name |-> <<"o","r","d","e","r">>, fails |-> BatonKeyword],
     [name |-> <<"x">>, fails |-> BatonTooShort],
     [name |-> <<"u","s","r","_","i","d">>, fails |-> BatonTypo]}
ParamLists == UNION {[1..n -> ParamNames] : n \in 1..MaxParams}
S_SELECT_1_WHERE == <<"S","E","L","E","C","T"," ","1"," ","W","H","E","R","E">>
ParamToken(param) == <<"?", "<">> \o param.name \o <<">">>
ParamPieces(given) ==
    <<S_SELECT_1_WHERE>> \o [k \in 1..Len(given) |-> ParamToken(given[k])]
ParamText(given) == JoinSpaced(ParamPieces(given))

BatonParameterInputs ==
    {RuleInput("baton-parameter-validation", given, ParamText(given), None, <<>>) :
        given \in ParamLists}
BatonParameterRuns ==
    Returned("baton-parameter-validation",
             batonParameterValidationRule(ruleRun.sql, ruleRun.originalQuery))

\* Multi-line INSERTs whose lists open with '(' at the end of a line and whose
\* items, one per line, are all separated by commas.  given holds the number
\* of blank lines before the INSERT, the number of items, whether the closing
\* parenthesis stands on a line of its own, and whether there is a column list.
InsertColumns == <<<<"i","d">>, <<"n","a","m","e">>, <<"e","m","a","i","l">>, <<"a","g","e">>>>
InsertValues == <<<<"1">>, <<"'","a","'">>, <<"2">>, <<"3">>>>
S_INSERT_INTO_t_open == <<"I","N","S","E","R","T"," ","I","N","T","O"," ","t"," ","(">>
S_INSERT_INTO_t == <<"I","N","S","E","R","T"," ","I","N","T","O"," ","t">>
S_VALUES_open == <<"V","A","L","U","E","S"," ","(">>
\* The first n entries of items, one per line, a comma after all but the last.
ItemLines(items, n, closeOwnLine) ==
    [k \in 1..n |->
        items[((k - 1) % Len(items)) + 1] \o
            (IF k < n THEN <<",">> ELSE IF closeOwnLine THEN <<>> ELSE <<")">>)] \o
    (IF closeOwnLine THEN << <<")">> >> ELSE <<>>)
InsertLines(given) ==
    [k \in 1..given.blankLines |-> <<>>] \o
    (IF given.columnList
     THEN <<S_INSERT_INTO_t_open>> \o ItemLines(InsertColumns, given.items, given.closeOwnLine)
     ELSE <<S_INSERT_INTO_t>>) \o
    <<S_VALUES_open>> \o ItemLines(InsertValues, given.items, given.closeOwnLine)
Inserts ==
    [blankLines : 0..1, items : 1..MaxColumns, closeOwnLine : BOOLEAN, columnList : BOOLEAN]

MissingCommaInsertInputs ==
    {RuleInput("missing-comma on INSERT", given, JoinLines(InsertLines(given)),
               ParseErrorOther, <<>>) : given \in Inserts}
MissingCommaInsertRuns ==
    Returned("missing-comma on INSERT",
             missingCommaRule(ruleRun.sql, ruleRun.originalQuery))

\* SELECTs with one column per line: SELECT, the columns, each with or without
\* a comma after it, possibly a comment line, and then a line that starts a
\* clause, or the end of the text (terminator None).
ScanColumnLists ==
    UNION {[1..n -> [name : {S_id, S_name}, comma : BOOLEAN]] : n \in 1..2}
ScanTerminators ==
    {None, Some(S_FROM_users), Some(<<"W","H","E","R","E"," ","i","d"," ","="," ","1">>), Some(<<"G","R","O","U","P"," ","B","Y"," ","i","d">>), Some(<<"o","r","d","e","r"," "," ","b","y"," ","i","d">>), Some(<<"L","I","M","I","T"," ","1">>)}
S_comment == <<"-","-"," ","c","o","l","u","m","n","s"," ","e","n","d"," ","h","e","r","e">>
ScanLines(given) ==
    <<S_SELECT>> \o [k \in 1..Len(given.columns) |-> ColumnLine(given.columns[k])] \o
    (IF given.comment THEN <<S_comment>> ELSE <<>>) \o given.terminator
TrailingScans ==
    [columns : ScanColumnLists, comment : BOOLEAN, terminator : ScanTerminators]

TrailingScanInputs ==
    {RuleInput("trailing-comma scan", given, JoinLines(ScanLines(given)), None, <<>>) :
        given \in TrailingScans}
TrailingScanRuns ==
    Returned("trailing-comma scan",
             trailingCommaRule(ruleRun.sql, ruleRun.originalQuery))

\* SELECTs that join table b to table a without an ON clause.  given holds
\* the join as it is written, its layout (all on one line, the join and its
\* table on a line of their own, or the join keyword alone on its line) and
\* the line that follows the join, if any.
JoinsWritten ==
    {<<"J","O","I","N">>,
     <<"I","N","N","E","R"," ","J","O","I","N">>,
     <<"L","E","F","T"," ","J","O","I","N">>,
     <<"R","I","G","H","T"," ","J","O","I","N">>,
     <<"F","U","L","L"," ","J","O","I","N">>,
     <<"C","R","O","S","S"," ","J","O","I","N">>}
JoinLayouts == {"one line", "join line", "keyword line"}
JoinFollowers == {None, Some(<<"W","H","E","R","E"," ","a",".","i","d"," ","="," ","1">>)}
S_SELECT_star == <<"S","E","L","E","C","T"," ","*">>
S_FROM_a == <<"F","R","O","M"," ","a">>
JoinQueryLines(given) ==
    (CASE given.layout = "one line" ->
              <<JoinSpaced(<<S_SELECT_star, S_FROM_a, given.join, <<"b">> >>)>>
       [] given.layout = "join line" ->
              <<S_SELECT_star, S_FROM_a, JoinSpaced(<<given.join, <<"b">> >>)>>
       [] given.layout = "keyword line" ->
              <<S_SELECT_star, S_FROM_a, given.join, <<"b">> >>) \o given.follower
JoinsWithoutOn == [join : JoinsWritten, layout : JoinLayouts, follower : JoinFollowers]

\* The tree of such a text: table a, then table b attached by the join, with
\* no condition.  A join written without a kind is reported as INNER JOIN.
JoinAst(given) ==
    [kind |-> "ast", select |-> TRUE, from |-> TRUE,
     tables |-> <<[join |-> <<>>, on |-> FALSE, sub |-> None],
                  [join |-> IF given.join = S_JOIN THEN <<"I","N","N","E","R"," ","J","O","I","N">> ELSE given.join,
                   on |-> FALSE, sub |-> None]>>]

InvalidJoinInputs ==
    {RuleInput("invalid-join", given, JoinLines(JoinQueryLines(given)), ParseErrorOther, <<>>) :
        given \in JoinsWithoutOn} \cup
    {RuleInput("invalid-join", given, JoinLines(JoinQueryLines(given)), JoinAst(given), <<>>) :
        given \in JoinsWithoutOn}
InvalidJoinRuns ==
    Returned("invalid-join",
             invalidJoinRule(ruleRun.sql, ruleRun.originalQuery, ruleRun.ast))

\* YAML fragments around a credentials section: the credentials key at some
\* indentation, one key under it, optionally a line in between, and a second
\* key at the depth of the first.  A line is its indentation and its key; the
\* line in between is blank, another key at column 0, at the depth of
\* credentials or at the depth of its keys, or a second credentials key.
CredentialKeys == {"random_password", "no_password", "account_id"}
CredentialSeparators == {"none", "blank", "top key", "sibling key", "nested key", "credentials"}
YamlLine(indent, key) == [indent |-> indent, key |-> key]
SeparatorLines(given) ==
    CASE given.between = "none" -> <<>>
      [] given.between = "blank" -> <<YamlLine(0, "")>>
      [] given.between = "top key" -> <<YamlLine(0, "options")>>
      [] given.between = "sibling key" -> <<YamlLine(given.outer, "options")>>
      [] given.between = "nested key" -> <<YamlLine(given.outer + 2, "options")>>
      [] given.between = "credentials" -> <<YamlLine(given.outer, "credentials")>>
YamlLines(given) ==
    <<YamlLine(given.outer, "credentials"), YamlLine(given.outer + 2, given.first)>>
        \o SeparatorLines(given)
        \o <<YamlLine(given.outer + 2, given.second)>>
KeyText ==
    [credentials |-> <<"c","r","e","d","e","n","t","i","a","l","s",":">>, random_password |-> <<"r","a","n","d","o","m","_","p","a","s","s","w","o","r","d",":"," ","{","}">>, no_password |-> <<"n","o","_","p","a","s","s","w","o","r","d",":"," ","t","r","u","e">>,
     account_id |-> <<"a","c","c","o","u","n","t","_","i","d",":"," ","i","d">>, options |-> <<"o","p","t","i","o","n","s",":">>]
YamlLineText(line) ==
    IF line.key = "" THEN <<>>
    ELSE [k \in 1..line.indent |-> " "] \o KeyText[line.key]
YamlText(lines) == JoinLines([k \in 1..Len(lines) |-> YamlLineText(lines[k])])
CredentialSections ==
    [outer : {0, 2}, first : CredentialKeys, between : CredentialSeparators,
     second : CredentialKeys]
CredentialInputs ==
    {RuleInput("credential-mutual-exclusion", [lines |-> YamlLines(given)],
               YamlText(YamlLines(given)), ParseErrorOther, <<>>) :
        given \in CredentialSections}
CredentialRuns ==
    Returned("credential-mutual-exclusion",
             credentialMutualExclusionRule(ruleRun.sql, ruleRun.originalQuery))

\* SELECTs from table t with one or two select expressions, each a plain
\* column or an aggregate call, with or without GROUP BY, on one line or
\* with one clause per line.
SelectItems ==
    {[text |-> <<"i","d">>, aggregate |-> FALSE],
     [text |-> <<"n","a","m","e">>, aggregate |-> FALSE],
     [text |-> <<"C","O","U","N","T","(","*",")">>, aggregate |-> TRUE],
     [text |-> <<"C","O","U","N","T","(","i","d",")">>, aggregate |-> TRUE],
     [text |-> <<"S","U","M","(","a","m","o","u","n","t",")">>, aggregate |-> TRUE],
     [text |-> <<"M","A","X"," ","(","a","m","o","u","n","t",")">>, aggregate |-> TRUE]}
SelectItemLists ==
    {<<a>> : a \in SelectItems} \cup {<<a, b>> : a \in SelectItems, b \in SelectItems}
S_comma_space == <<","," ">>
S_FROM_t == <<"F","R","O","M"," ","t">>
S_GROUP_BY_id == <<"G","R","O","U","P"," ","B","Y"," ","i","d">>
RECURSIVE CommaSeparated(_)
CommaSeparated(items) ==
    IF Len(items) = 1 THEN items[1].text
    ELSE items[1].text \o S_comma_space \o CommaSeparated(Tail(items))
GroupedClauses(given) ==
    <<JoinSpaced(<<S_SELECT, CommaSeparated(given.items)>>), S_FROM_t>>
        \o (IF given.groupBy THEN <<S_GROUP_BY_id>> ELSE <<>>)
GroupedText(given) ==
    IF given.oneLine THEN JoinSpaced(GroupedClauses(given))
    ELSE JoinLines(GroupedClauses(given))
GroupedSelects == [items : SelectItemLists, groupBy : BOOLEAN, oneLine : BOOLEAN]

\* The tree of such a text.
GroupedAst(given) ==
    [kind |-> "ast", select |-> TRUE, from |-> TRUE,
     columns |-> [k \in 1..Len(given.items) |->
                     IF given.items[k].aggregate THEN "aggr_func" ELSE "column_ref"],
     groupby |-> given.groupBy]

\* The rule is given the query on one line as sql and the text as it is laid
\* out as originalQuery.
GroupedInput(given, ast) ==
    [RuleInput("invalid-group-by", given, GroupedText(given), ast, <<>>)
        EXCEPT !.sql = JoinSpaced(GroupedClauses(given))]
InvalidGroupByInputs ==
    {GroupedInput(given, ParseErrorOther) : given \in GroupedSelects} \cup
    {GroupedInput(given, GroupedAst(given)) : given \in GroupedSelects}
InvalidGroupByRuns ==
    Returned("invalid-group-by",
             invalidGroupByRule(ruleRun.sql, ruleRun.originalQuery, ruleRun.ast))

\* Pairs of words given to levenshteinDistance, and pairs of words in mixed
\* case with a threshold given to areWordsSimilar.
MaxWordLen == 3
WordsOver(chars) == UNION {[1..n -> chars] : n \in 0..MaxWordLen}
Words == WordsOver({"a", "b"})
CasedWords == WordsOver({"a", "b", "B"})
LevenshteinInputs ==
    {RuleInput("levenshteinDistance", [a |-> a, b |-> b], <<>>, ParseErrorOther, <<>>) :
        a \in Words, b \in Words}
LevenshteinRuns ==
    Returned("levenshteinDistance",
             [distance |-> levenshteinDistance(ruleRun.given.a, ruleRun.given.b)])
SimilarWordsInputs ==
    {RuleInput("areWordsSimilar", [word1 |-> w1, word2 |-> w2, threshold |-> t],
               <<>>, ParseErrorOther, <<>>) :
        w1 \in CasedWords, w2 \in WordsOver({"a", "B"}), t \in 0..2}
SimilarWordsRuns ==
    Returned("areWordsSimilar",
             [similar |-> areWordsSimilar(ruleRun.given.word1, ruleRun.given.word2,
                                          ruleRun.given.threshold)])

RuleInputs ==
    MissingCommaInputs \cup TrailingCommaInputs \cup ValidateSqlInputs
        \cup MissingFromInputs \cup DuplicateAliasesInputs \cup KeywordSpellingInputs
        \cup BatonParameterInputs
        \cup MissingCommaInsertInputs
        \cup TrailingScanInputs
        \cup InvalidJoinInputs
        \cup CredentialInputs
        \cup InvalidGroupByInputs
        \cup LevenshteinInputs
        \cup SimilarWordsInputs

RulesInit ==
    /\ ruleRun \in RuleInputs
    /\ norm = NormIdle
    /\ validationCache = <<>>
    /\ cacheOrigin = <<>>
    /\ astMemo = <<>>
    /\ ruleMode = <<>>
    /\ lastCall = NoCall
    /\ DocIdle

RulesNext ==
    \/ MissingCommaRuns
    \/ TrailingCommaRuns
    \/ ValidateSqlRuns
    \/ MissingFromRuns
    \/ DuplicateAliasesRuns
    \/ KeywordSpellingRuns
    \/ BatonParameterRuns
    \/ MissingCommaInsertRuns
    \/ TrailingScanRuns
    \/ InvalidJoinRuns
    \/ CredentialRuns
    \/ InvalidGroupByRuns
    \/ LevenshteinRuns
    \/ SimilarWordsRuns
SpecRules == RulesInit /\ [][RulesNext]_vars

\* The columns without a comma after them, by position.
BareColumns(columns) == {k \in 1..Len(columns) : ~columns[k].comma}
\* The first of them, when another column follows it; 0 otherwise.
FirstBareColumn(columns) ==
    IF BareColumns(columns) = {} THEN 0
    ELSE IF (CHOOSE k \in BareColumns(columns) : \A j \in BareColumns(columns) : k <= j)
                < Len(columns)
         THEN CHOOSE k \in BareColumns(columns) : \A j \in BareColumns(columns) : k <= j
         ELSE 0

\* C15: for a SELECT with one column per line, when L is the first column
\* line without a comma and the next line is another column, the rule
\* returns a finding whose lineNumber is the zero-based index of L and whose
\* suggested fix inserts ',' at the end of L.
C15_MissingCommaAtFirstBareColumn ==
    (HasReturned("missing-comma") /\ FirstBareColumn(ruleRun.given) > 0) =>
        /\ ~ruleRun.result.isValid
        /\ ruleRun.result.lineNumber = Some(FirstBareColumn(ruleRun.given))
        /\ ruleRun.result.suggestedFix.newText = <<",">>
        /\ ruleRun.result.suggestedFix.range.start =
               [line |-> FirstBareColumn(ruleRun.given),
                character |-> Len(ruleRun.given[FirstBareColumn(ruleRun.given)].name)]

\* The README's example: SELECT / id, / name / email / FROM users.
C15_ExampleReported ==
    (/\ HasReturned("missing-comma")
     /\ ruleRun.given = <<[name |-> S_id, comma |-> TRUE], [name |-> S_name, comma |-> FALSE],
                          [name |-> S_email, comma |-> FALSE]>>)
        => ruleRun.result.lineNumber = Some(2)

\* The findings of a list that report a trailing comma, by position.
TrailingCommaFindings(results) ==
    {k \in 1..Len(results) :
        /\ results[k].errorMessage # None
        /\ results[k].errorMessage[1].text \in TrailingCommaTexts}

\* C16: for a query whose SELECT column list ends with a comma directly before
\* FROM, the list validateSql returns holds exactly one trailing-comma finding,
\* and its lineNumber is the index of the line holding that comma.
C16_OneTrailingCommaFinding ==
    HasReturned("validateSql") =>
        /\ Cardinality(TrailingCommaFindings(ruleRun.result)) = 1
        /\ \A k \in TrailingCommaFindings(ruleRun.result) :
               ruleRun.result[k].lineNumber = Some(ruleRun.given.commaLine)

\* The rule itself, when it is called, reports the comma at that line.
C16_RuleAloneReportsTheLine ==
    HasReturned("trailing-comma") =>
        /\ ~ruleRun.result.isValid
        /\ ruleRun.result.errorMessage[1].text \in TrailingCommaTexts
        /\ ruleRun.result.lineNumber = Some(ruleRun.given.commaLine)

\* C17: for a SELECT with no FROM clause the missing-from rule returns no
\* finding when the select list is a literal, a system or date function, an
\* arithmetic expression or a session variable, and returns a finding when it
\* is a bare column reference, whatever the column is named and whether the
\* parser accepts the text or not.
C17_BareColumnNeedsFrom ==
    HasReturned("missing-from") =>
        IF ruleRun.given.bare
        THEN ~ruleRun.result.isValid /\ ruleRun.result.errorMessage = MissingFromMessage
        ELSE ruleRun.result.isValid

\* The exempt half of it, and the bare columns named id and name.
C17_ExamplesDecided ==
    (HasReturned("missing-from") /\ ~Includes(ToLowerCase(ruleRun.sql), <<"u","s","e","r">>))
        => (ruleRun.given.bare <=> ~ruleRun.result.isValid)

\* The bindings that repeat, case-insensitively, the alias of an earlier one;
\* the first of them is the second binding of an alias (0 when there is none).
RepeatedBindings(aliases) ==
    {k \in 1..Len(aliases) :
        \E j \in 1..(k - 1) : ToLowerCase(aliases[j]) = ToLowerCase(aliases[k])}
SecondBinding(aliases) ==
    IF RepeatedBindings(aliases) = {} THEN 0
    ELSE CHOOSE k \in RepeatedBindings(aliases) : \A j \in RepeatedBindings(aliases) : k <= j

\* The zero-based line index and character span of binding k in the text.
BindingLine(given, k) == IF given.oneLine THEN 0 ELSE k
BindingOffset(given, k) == Len(JoinSpaced(SubSeq(ChainPieces(given), 1, k))) + 1
BindingSpan(given, k) ==
    BindingOffset(given, k)..
        (BindingOffset(given, k) + Len(BindingText(k, given.aliases[k])) - 1)

\* The finding points at binding k: by the index or the number of its line,
\* or, when it carries no line, by a position inside the binding.
LocatedAtBinding(result, given, k) ==
    IF result.lineNumber # None
    THEN result.lineNumber[1] \in {BindingLine(given, k), BindingLine(given, k) + 1}
    ELSE /\ result.position # None
         /\ given.oneLine
         /\ result.position[1] \in BindingSpan(given, k)

\* C18: when the FROM/JOIN chain binds the same alias, compared
\* case-insensitively, to two tables, the duplicate-aliases rule returns one
\* finding that names the alias and is located at the second binding of it;
\* a chain with no repeated alias yields no finding.
C18_DuplicateAliasAtSecondBinding ==
    HasReturned("duplicate-aliases") =>
        IF SecondBinding(ruleRun.given.aliases) = 0
        THEN ruleRun.result.isValid
        ELSE /\ ~ruleRun.result.isValid
             /\ ruleRun.result.errorMessage[1].arg =
                    ToLowerCase(ruleRun.given.aliases[SecondBinding(ruleRun.given.aliases)])
             /\ LocatedAtBinding(ruleRun.result, ruleRun.given,
                                 SecondBinding(ruleRun.given.aliases))

\* All of it but the place: one finding naming the alias exactly when an
\* alias repeats.
C18_DuplicateAliasNamed ==
    HasReturned("duplicate-aliases") =>
        IF SecondBinding(ruleRun.given.aliases) = 0
        THEN ruleRun.result.isValid
        ELSE /\ ~ruleRun.result.isValid
             /\ ruleRun.result.errorMessage[1].arg =
                    ToLowerCase(ruleRun.given.aliases[SecondBinding(ruleRun.given.aliases)])

\* When the parser throws, the place is the second binding as well.
C18_FallbackAtSecondBinding ==
    (/\ HasReturned("duplicate-aliases")
     /\ ruleRun.ast.kind = "error"
     /\ SecondBinding(ruleRun.given.aliases) > 0)
        => LocatedAtBinding(ruleRun.result, ruleRun.given,
                            SecondBinding(ruleRun.given.aliases))

\* The lines with a typo of the table or a close match, by position, and the
\* first of them (0 when there is none).
MisspelledLines(given) ==
    {k \in 1..Len(given) : given[k].dictionary # None \/ given[k].closeMatch # None}
FirstMisspelledLine(given) ==
    IF MisspelledLines(given) = {} THEN 0
    ELSE CHOOSE k \in MisspelledLines(given) : \A j \in MisspelledLines(given) : k <= j
\* What is reported for such a line: the table's typo and correction when it
\* has one, the close match otherwise.
ExpectedSpelling(line) ==
    IF line.dictionary # None THEN line.dictionary[1] ELSE line.closeMatch[1]

\* C19: on multi-line input the keyword-spelling rule returns one finding, at
\* the index of the first line that has a typo of the table or a close
\* match; it suggests the table's correction when the line has such a typo,
\* whatever its first word is, and the close keyword otherwise; lines with
\* neither, and single-line input, yield no finding.
C19_FirstMisspelledLineReported ==
    HasReturned("keyword-spelling") =>
        IF Len(ruleRun.given) = 1 \/ FirstMisspelledLine(ruleRun.given) = 0
        THEN ruleRun.result.isValid
        ELSE /\ ~ruleRun.result.isValid
             /\ ruleRun.result.lineNumber = Some(FirstMisspelledLine(ruleRun.given) - 1)
             /\ ruleRun.result.errorMessage[1].arg =
                    ExpectedSpelling(ruleRun.given[FirstMisspelledLine(ruleRun.given)])

\* A text whose first misspelled line, not the first line, has both a typo of
\* the table and a different close match, and the typo is what was reported.
C19_Witness ==
    /\ HasReturned("keyword-spelling")
    /\ FirstMisspelledLine(ruleRun.given) > 1
    /\ ruleRun.given[FirstMisspelledLine(ruleRun.given)].dictionary # None
    /\ ruleRun.given[FirstMisspelledLine(ruleRun.given)].closeMatch # None
    /\ ruleRun.given[FirstMisspelledLine(ruleRun.given)].closeMatch #
           ruleRun.given[FirstMisspelledLine(ruleRun.given)].dictionary
    /\ ~ruleRun.result.isValid
    /\ ruleRun.result.errorMessage[1].arg =
           ruleRun.given[FirstMisspelledLine(ruleRun.given)].dictionary[1]

\* The parameters that fail a check, by position in the text, and the first
\* of them (0 when there is none).
FailingParams(given) == {k \in 1..Len(given) : given[k].fails # ""}
FirstFailingParam(given) ==
    IF FailingParams(given) = {} THEN 0
    ELSE CHOOSE k \in FailingParams(given) : \A j \in FailingParams(given) : k <= j
\* The zero-based offset of the k-th parameter in the text.
ParamOffset(given, k) == Len(JoinSpaced(SubSeq(ParamPieces(given), 1, k))) + 1

\* C20: the result of the baton-parameter-validation rule is decided by the
\* first parameter, in text order, that fails a check, and for it by the first
\* check it fails in the order empty name, identifier grammar, SQL keyword,
\* length below 2, near-miss of a common parameter name; parameters after it
\* are not reported, and the rule returns valid only if no parameter fails.
C20_FirstFailingParameterDecides ==
    HasReturned("baton-parameter-validation") =>
        IF FirstFailingParam(ruleRun.given) = 0
        THEN ruleRun.result.isValid
        ELSE /\ ~ruleRun.result.isValid
             /\ ruleRun.result.errorMessage[1].text =
                    ruleRun.given[FirstFailingParam(ruleRun.given)].fails
             /\ ruleRun.result.position =
                    Some(ParamOffset(ruleRun.given, FirstFailingParam(ruleRun.given)))

\* Three parameters: the first passes, the second fails two checks, the third
\* fails another one, and the second's first check is what was reported.
C20_Witness ==
    /\ HasReturned("baton-parameter-validation")
    /\ Len(ruleRun.given) = 3
    /\ FirstFailingParam(ruleRun.given) = 2
    /\ ruleRun.given[2].name \in {<<"1">>, <<"u","s","e","r","-","i","d">>}
    /\ ruleRun.given[3].fails \notin {"", BatonInvalidName}
    /\ ~ruleRun.result.isValid
    /\ ruleRun.result.errorMessage[1].text = BatonInvalidName
    /\ ruleRun.result.position = Some(ParamOffset(ruleRun.given, 2))

\* C21: when the parser accepts the text and returns a select, the
\* missing-comma rule returns no finding, whatever the layout of the lines.
C21_CleanParseMeansNoFinding ==
    (/\ HasReturned("missing-comma")
     /\ ruleRun.ast.kind = "ast"
     /\ ruleRun.ast.select)
        => ruleRun.result.isValid

\* C22: for a multi-line INSERT whose column list or VALUES list opens with
\* '(' at the end of a line and whose items are all separated by commas, the
\* missing-comma rule returns no finding.
C22_OpeningParenthesisNeedsNoComma ==
    HasReturned("missing-comma on INSERT") => ruleRun.result.isValid

\* With a column list of two or more items the line holding its opening
\* parenthesis is what the rule reports.
C22_OpeningLineReported ==
    (/\ HasReturned("missing-comma on INSERT")
     /\ ruleRun.given.columnList
     /\ ruleRun.given.items >= 2)
        => /\ ~ruleRun.result.isValid
           /\ ruleRun.result.lineNumber = Some(ruleRun.given.blankLines)

\* The last column line is the nearest non-empty, non-comment line before the
\* clause line or the end of the text; its zero-based index is the number of
\* columns.
LastColumn(given) == given.columns[Len(given.columns)]

\* C23: inside a SELECT column list, on reaching a line that starts a
\* terminating clause, or the end of the input, the trailing-comma rule flags
\* the nearest preceding non-empty, non-comment line if it ends with ',',
\* reporting that line's index, and returns valid otherwise.
C23_CommaBeforeClauseOrEnd ==
    HasReturned("trailing-comma scan") =>
        IF LastColumn(ruleRun.given).comma
        THEN /\ ~ruleRun.result.isValid
             /\ ruleRun.result.lineNumber = Some(Len(ruleRun.given.columns))
        ELSE ruleRun.result.isValid

\* The same, for the texts in which a clause line follows the columns.
C23_CommaBeforeClause ==
    (HasReturned("trailing-comma scan") /\ ruleRun.given.terminator # None) =>
        IF LastColumn(ruleRun.given).comma
        THEN /\ ~ruleRun.result.isValid
             /\ ruleRun.result.lineNumber = Some(Len(ruleRun.given.columns))
        ELSE ruleRun.result.isValid

IsCrossJoin(given) == given.join = <<"C","R","O","S","S"," ","J","O","I","N">>

\* C24: a CROSS JOIN without an ON clause never produces an invalid-join
\* finding, whether the parser returns a tree or throws; every other kind of
\* JOIN without ON produces one.
C24_OnlyCrossJoinNeedsNoOn ==
    HasReturned("invalid-join") =>
        (ruleRun.result.isValid <=> IsCrossJoin(ruleRun.given))

\* When the parser throws, a CROSS JOIN is never reported.
C24_CrossJoinExemptInLineScan ==
    (HasReturned("invalid-join") /\ ruleRun.ast.kind = "error" /\ IsCrossJoin(ruleRun.given))
        => ruleRun.result.isValid

\* When the parser returns a tree, every join without ON is reported, the
\* CROSS JOIN too.
C24_TreeReportsEveryJoin ==
    (HasReturned("invalid-join") /\ ruleRun.ast.kind = "ast")
        => /\ ~ruleRun.result.isValid
           /\ ruleRun.result.errorMessage[1].text = JoinMissingOn

\* The credentials block that starts after line i (one-based) of lines: the
\* lines after it, up to the first non-empty line indented no deeper than
\* line i.
BlockEnds(lines, i) ==
    {j \in (i + 1)..Len(lines) : lines[j].key # "" /\ lines[j].indent <= lines[i].indent}
BlockOf(lines, i) ==
    {j \in (i + 1)..Len(lines) : \A e \in BlockEnds(lines, i) : j < e}
BlockHolds(lines, i, key) == \E j \in BlockOf(lines, i) : lines[j].key = key
ConflictingBlocks(lines) ==
    {i \in 1..Len(lines) :
        /\ lines[i].key = "credentials"
        /\ BlockHolds(lines, i, "random_password")
        /\ BlockHolds(lines, i, "no_password")}

\* C25: the credential-mutual-exclusion rule returns a finding if and only if
\* one credentials block holds both random_password and no_password, a block
\* being the lines after a credentials line up to the first non-empty line
\* indented the same or less.
C25_FindingIffOneBlockHoldsBoth ==
    HasReturned("credential-mutual-exclusion") =>
        (~ruleRun.result.isValid <=> ConflictingBlocks(ruleRun.given.lines) # {})

\* Both keys in one block are always reported, at the first of the two.
C25_ConflictInOneBlockReported ==
    (HasReturned("credential-mutual-exclusion") /\ ConflictingBlocks(ruleRun.given.lines) # {})
        => /\ ~ruleRun.result.isValid
           /\ ruleRun.result.lineNumber = Some(1)

MixesAggregateAndPlain(given) ==
    /\ \E k \in 1..Len(given.items) : given.items[k].aggregate
    /\ \E k \in 1..Len(given.items) : ~given.items[k].aggregate

\* C26: the invalid-group-by rule returns a finding exactly when the select
\* list holds an aggregate call and a plain column and the query has no GROUP
\* BY, whether the parser returns a tree or throws; a plain column next to
\* COUNT(*) is flagged too.
C26_FindingIffMixedWithoutGroupBy ==
    HasReturned("invalid-group-by") =>
        (~ruleRun.result.isValid <=>
            (MixesAggregateAndPlain(ruleRun.given) /\ ~ruleRun.given.groupBy))

\* When the parser returns a tree the rule decides as stated, and reports
\* the line of the SELECT.
C26_TreeDecidesAsStated ==
    (HasReturned("invalid-group-by") /\ ruleRun.ast.kind = "ast") =>
        IF MixesAggregateAndPlain(ruleRun.given) /\ ~ruleRun.given.groupBy
        THEN ~ruleRun.result.isValid /\ ruleRun.result.lineNumber = Some(1)
        ELSE ruleRun.result.isValid

\* When the parser throws, a query without COUNT(*) is decided as stated.
C26_FallbackWithoutCountStar ==
    (/\ HasReturned("invalid-group-by")
     /\ ruleRun.ast.kind = "error"
     /\ ~HasCountStar(ruleRun.sql)) =>
        (~ruleRun.result.isValid <=>
            (MixesAggregateAndPlain(ruleRun.given) /\ ~ruleRun.given.groupBy))

\* The words one single-character deletion, insertion or substitution away
\* from s, with inserted and substituted characters taken from chars and
\* no word longer than longest.
Deletions(s) == {SubSeq(s, 1, i - 1) \o SubSeq(s, i + 1, Len(s)) : i \in 1..Len(s)}
Insertions(s, chars, longest) ==
    IF Len(s) >= longest THEN {}
    ELSE {SubSeq(s, 1, i) \o <<c>> \o SubSeq(s, i + 1, Len(s)) : i \in 0..Len(s), c \in chars}
Substitutions(s, chars) == {[s EXCEPT ![i] = c] : i \in 1..Len(s), c \in chars}
OneEdit(s, chars, longest) ==
    Deletions(s) \cup Insertions(s, chars, longest) \cup Substitutions(s, chars)

\* The least number of edits that turn a word of reached into b, plus n.  A
\* shortest sequence of edits needs no character that b lacks and no word
\* longer than the longer of the two.
RECURSIVE EditsNeeded(_, _, _, _, _)
EditsNeeded(reached, b, chars, longest, n) ==
    IF b \in reached THEN n
    ELSE EditsNeeded(reached \cup UNION {OneEdit(s, chars, longest) : s \in reached},
                     b, chars, longest, n + 1)
EditDistance(a, b) ==
    EditsNeeded({a}, b, {b[i] : i \in 1..Len(b)}, Max2(Len(a), Len(b)), 0)

\* C27: levenshteinDistance(a, b) is the least number of single-character
\* insertions, deletions and substitutions that turn a into b; it is
\* symmetric and is 0 exactly when a = b; areWordsSimilar(w1, w2, t) holds
\* exactly when the distance of the lower-cased words is at most t.
C27_LevenshteinIsEditDistance ==
    /\ HasReturned("levenshteinDistance") =>
           /\ ruleRun.result.distance = EditDistance(ruleRun.given.a, ruleRun.given.b)
           /\ ruleRun.result.distance = levenshteinDistance(ruleRun.given.b, ruleRun.given.a)
           /\ (ruleRun.result.distance = 0) <=> (ruleRun.given.a = ruleRun.given.b)
    /\ HasReturned("areWordsSimilar") =>
           (ruleRun.result.similar <=>
               EditDistance(ToLowerCase(ruleRun.given.word1), ToLowerCase(ruleRun.given.word2))
                   <= ruleRun.given.threshold)

\* Two different words of different lengths, two edits apart, have been
\* measured.
C27_Witness ==
    /\ HasReturned("levenshteinDistance")
    /\ ruleRun.given.a = <<"a", "a", "b">>
    /\ ruleRun.given.b = <<"b", "a">>
    /\ ruleRun.result.distance = 2

\* The diagnostics published for uri, none if nothing was ever sent for it.
PublishedFor(uri) == IF uri \in DOMAIN published THEN published[uri] ELSE <<>>
\* The diagnostics the last pass computed from the text it was given, none
\* if it computed none.
ComputedByLastPass == IF lastPass.sent = None THEN <<>> ELSE lastPass.sent[1]

\* C28: after a validation pass of the language server that the digest check
\* did not skip, the diagnostics published for the document are the ones
\* computed from its current text; none computed from an earlier text stays
\* published.
C28_PublishedComeFromCurrentText ==
    (lastPass.ran /\ host = "server" /\ ~lastPass.skipped) =>
        PublishedFor(lastPass.uri) = ComputedByLastPass

\* Whenever the server pass reaches the end of its loop over the queries, or
\* finds no query, what is published is what it computed.
C28_CompletedPassPublishes ==
    (lastPass.ran /\ host = "server" /\ ~lastPass.skipped /\ lastPass.sent # None) =>
        PublishedFor(lastPass.uri) = lastPass.sent[1]

\* The keys stored for the document uri.
KeysOf(fixes, uri) == {key \in DOMAIN fixes : key.uri = uri}

\* C29: clearDiagnosticFixes(uri) removes exactly the fixes stored for the
\* document with that uri and leaves the fixes of every other document as
\* they were, also the fixes of documents whose uri starts with uri.
C29_ClearRemovesOnlyThatDocument ==
    lastClear.called =>
        /\ KeysOf(lastClear.after, lastClear.uri) = {}
        /\ \A key \in DOMAIN lastClear.before :
               key.uri # lastClear.uri =>
                   /\ key \in DOMAIN lastClear.after
                   /\ lastClear.after[key] = lastClear.before[key]

\* The call removes every fix of the document itself and adds none.
C29_ClearRemovesThatDocument ==
    lastClear.called =>
        /\ KeysOf(lastClear.after, lastClear.uri) = {}
        /\ \A key \in DOMAIN lastClear.after :
               key \in DOMAIN lastClear.before /\ lastClear.after[key] = lastClear.before[key]

\* The document the last pass was given: the one with its uri whose text has
\* the digest the pass recorded.
PassedDocuments ==
    {document \in ServerDocuments :
        /\ document.uri = lastPass.uri
        /\ lastPass.uri \in DOMAIN fileDigests
        /\ fileHashString(document.text) = fileDigests[lastPass.uri]}
\* The symbols the index holds for uri, as (name, type).
SymbolsNamed(name, uri) ==
    {[name |-> name, type |-> symbols[name][k].type] :
        k \in {j \in 1..Len(symbols[name]) : symbols[name][j].documentUri = uri}}
IndexedFor(uri) == UNION {SymbolsNamed(name, uri) : name \in DOMAIN symbols}
NamedSymbols(document) ==
    {[name |-> name, type |-> "table"] : name \in document.tables} \cup
    {[name |-> document.resourceTypes[k], type |-> "resource_type"] :
        k \in 1..Len(document.resourceTypes)}


\* C30: after a validation pass of the language server that the digest check
\* did not skip, the index holds for the document exactly the symbols of its
\* current text (its resource types and its FROM and JOIN tables); none from
\* an earlier text remains, also when the new text has no query or is not
\* valid YAML.
C30_IndexHoldsSymbolsOfCurrentText ==
    (lastPass.ran /\ ~lastPass.skipped) =>
        \A document \in PassedDocuments :
            IndexedFor(document.uri) =
                (IF document.yaml = None THEN {} ELSE NamedSymbols(document))

\* A pass that reaches the end of its loop over the queries leaves exactly
\* the symbols of the text it was given.
C30_CompletedPassIndexesTheText ==
    (lastPass.ran /\ ~lastPass.skipped /\ lastPass.sent # None /\ lastPass.calls # <<>>) =>
        \A document \in PassedDocuments : IndexedFor(document.uri) = NamedSymbols(document)

\* A pass changes the symbols of no other document.
SymbolsOfDocument(index, uri) ==
    [name \in DOMAIN index |-> SelectSeq(index[name], LAMBDA symbol : symbol.documentUri = uri)]
NonEmptyLists(lists) == [name \in {n \in DOMAIN lists : lists[n] # <<>>} |-> lists[name]]
C30_OtherDocumentsKeepTheirSymbols ==
    [][\A document \in ServerDocuments :
          (lastPass'.ran /\ document.uri # lastPass'.uri /\ lastPass' # lastPass) =>
              NonEmptyLists(SymbolsOfDocument(symbols', document.uri))
                  = NonEmptyLists(SymbolsOfDocument(symbols, document.uri))]_vars

=============================================================================
